---- MODULE Spec2Model ----
(***************************************************************************)
(* A model of @mirawision/domino: the mutation observers of observer.ts    *)
(* (watchAdded, watchRemoved, watchModified, watchSelector), their         *)
(* debounce/throttle wrappers, and the DOM / MutationObserver / timer      *)
(* primitives they run on; the wait functions of wait.ts and the element   *)
(* helpers of element.ts.                                                  *)
(***************************************************************************)
EXTENDS Integers, Sequences, FiniteSets, TLC

VARIABLES
  children,     \* the DOM: node -> sequence of its child nodes
  attrs,        \* the DOM: element that exists -> attribute name -> its value
  nops,         \* number of DOM mutations made so far (also the record id)
  sessions,     \* session id -> [kind, target]: which watch function made it, and for what
  options,      \* session id -> the options object the session was created with
  obs,          \* session id -> the session's MutationObserver
  rl,           \* session id -> state of the session's debounce/throttle closure
  timers,       \* the timer queue: the set of scheduled, not yet fired timers
  nextTimerId,  \* the id the next setTimeout returns
  now,          \* the clock (Date.now() and the timer clock)
  aborted,      \* whether the AbortSignal given to the sessions has fired
  ndisp,        \* session id -> number of calls of the returned Dispose so far
  log,          \* every invocation of a user handler, in order
  hist,         \* every call of a wrapped (rate limited) callback, in order
  last,         \* the step just taken: a delivery (its batch and the handler calls it
                \* made), a DOM mutation (its record), or another step
  promise       \* wait session id -> the promises of a waitFor / waitForRemoved /
                \* waitForChange call: the observer's, the timeout's, and their race

vars == <<children, attrs, nops, sessions, options, obs, rl, timers, nextTimerId, now,
          aborted, ndisp, log, hist, last, promise>>

(***************************************************************************)
(* Bounds of the model.                                                    *)
(***************************************************************************)
MaxOps == 2     \* DOM mutations in one behaviour
MaxTime == 5    \* clock ticks in one behaviour
MaxCalls == 3   \* direct calls of a wrapped callback in one behaviour
RateMs == 2     \* the debounce / throttle delay the sessions are configured with
Epoch == 10     \* Date.now() when the behaviour starts
MaxDispose == 2 \* calls of one session's Dispose function in one behaviour
MaxSelOps == 3  \* DOM mutations in one behaviour of a composite (watchSelector) session
WaitMs == 2     \* the timeout the wait sessions are configured with

(***************************************************************************)
(* The DOM fixture: document > body, three movable elements and a text     *)
(* node. Elements a and b carry the class the selector ".x" selects when   *)
(* a behaviour starts. Element d does not exist until innerHTML parses it. *)
(***************************************************************************)
Doc == "doc"
Body == "body"
Movable == {"a", "b", "c"}
Parsed == {"d"}
Elements == {Body} \cup Movable \cup Parsed
\* the Text node a mutation of the page creates (el.textContent = text makes a new
\* node each time): the node of the page's k-th mutation is CreatedText[k]
CreatedText == <<"t1", "t2", "t3", "t4", "t5", "t6">>
TextNodes == {"t"} \cup {CreatedText[k] : k \in DOMAIN CreatedText}
Nodes == {Doc} \cup Elements \cup TextNodes
ClassX == {"a", "b"}
AttrNames == {"data-test", "title"}
None == "none"

\* the attributes an element may carry; a value is None (the attribute is absent),
\* "x" (for class: a list of classes that holds x) or "v" (any other value)
ClassAttr == "class"
AllAttrNames == {ClassAttr} \cup AttrNames

\* the elements that exist when a behaviour starts: each has data-test and title
\* set, a and b have class x, the others no class attribute
InitialAttributes ==
  [el \in Elements \ Parsed |->
     [n \in AllAttrNames |-> IF n # ClassAttr THEN "v"
                              ELSE IF el \in ClassX THEN "x" ELSE None]]

Range(s) == {s[i] : i \in 1..Len(s)}

\* the values of the variable last
OtherStep == [act |-> "other", sid |-> 0, batch |-> <<>>, halt |-> None, calls |-> <<>>]
MutationStep(rec) == [OtherStep EXCEPT !.act = "mutate", !.batch = <<rec>>]

Parent(ch, n) == IF \E p \in Nodes : n \in Range(ch[p])
                 THEN CHOOSE p \in Nodes : n \in Range(ch[p])
                 ELSE None

RECURSIVE Ancestors(_, _)
Ancestors(ch, n) == LET p == Parent(ch, n) IN
                    IF p = None THEN {} ELSE {p} \cup Ancestors(ch, p)

RECURSIVE Flatten(_, _)
RECURSIVE Descendants(_, _)
\* the descendants of n in document order (preorder)
Descendants(ch, n) == Flatten(ch, ch[n])
Flatten(ch, ns) == IF ns = <<>> THEN <<>>
                   ELSE <<Head(ns)>> \o Descendants(ch, Head(ns)) \o Flatten(ch, Tail(ns))

IsElement(n) == n \in Elements

\* el.matches(".x")
ElMatches(el) == el \in DOMAIN attrs /\ attrs[el][ClassAttr] = "x"

SelectSeqBy(s, S) == SelectSeq(s, LAMBDA x : x \in S)

\* node.querySelectorAll(".x")
QuerySelectorAll(ch, n) == SelectSeq(Descendants(ch, n), ElMatches)

(***************************************************************************)
(* Targets: a selector string, an Element, or a predicate function. A      *)
(* predicate is given by the elements it accepts and those it throws on.   *)
(***************************************************************************)
Selector == [kind |-> "selector", el |-> None, yes |-> {}, throws |-> {}]
ElementRef(e) == [kind |-> "element", el |-> e, yes |-> {}, throws |-> {}]
Predicate(yes, throws) == [kind |-> "predicate", el |-> None, yes |-> yes, throws |-> throws]

Bool(b) == IF b THEN "true" ELSE "false"

\* matchesTarget: "true", "false", or "throw" when the predicate throws
matchesTarget(el, target) ==
  IF target.kind = "selector" THEN Bool(ElMatches(el))
  ELSE IF target.kind = "element" THEN Bool(el = target.el)
  ELSE IF el \in target.throws THEN "throw" ELSE Bool(el \in target.yes)

(***************************************************************************)
(* The timer primitive.                                                    *)
(***************************************************************************)
\* a clearTimeout that cancels every scheduled timer
clearTimeoutAny(ts, id) == {}
clearTimeout(ts, id) == {t \in ts : t.id # id}

setTimeout(ts, id, owner, kind, due, args) ==
  ts \cup {[id |-> id, owner |-> owner, kind |-> kind, due |-> due, args |-> args]}

(***************************************************************************)
(* The context a callback runs in: the pieces of state a delivery (or a    *)
(* direct call) reads and changes, threaded through the handler's code.    *)
(*   halt  = "run" | "return" | "throw"                                    *)
(*   throwAt = the index (in this context) of the handler invocation that  *)
(*             throws; 0 when none does                                    *)
(*   batch = the records being delivered (none in a direct call)           *)
(***************************************************************************)
Ctx(sid, throwAt) ==
  [sid |-> sid, t |-> now, throwAt |-> throwAt, ndisp |-> ndisp[sid], aborted |-> aborted,
   rl |-> rl[sid], timers |-> timers, nextId |-> nextTimerId, log |-> log,
   hist |-> hist, conn |-> obs[sid].connected, batch |-> obs[sid].queue,
   halt |-> "run", nsync |-> 0]

\* the user's handler is invoked
fn(ctx, args, via) ==
  LET n == ctx.nsync + 1 IN
  [ctx EXCEPT !.log = Append(@, [sid |-> ctx.sid, args |-> args, at |-> ctx.t, via |-> via,
                                 conn |-> ctx.conn, ndisp |-> ctx.ndisp,
                                 aborted |-> ctx.aborted, threw |-> (n = ctx.throwAt),
                                 batch |-> IF via = "sync" THEN ctx.batch ELSE <<>>]),
              !.nsync = n,
              !.halt = IF n = ctx.throwAt THEN "throw" ELSE @]

\* the function debounce(fn, ms) returns
debounceNoClear(ctx, args) ==
  [ctx EXCEPT !.timers = setTimeout(@, ctx.nextId, ctx.sid, "debounce", ctx.t + ctx.rl.ms, args),
              !.rl.timeoutId = ctx.nextId,
              !.nextId = @ + 1]
debounce(ctx, args) ==
  [ctx EXCEPT !.timers = setTimeout(clearTimeout(@, ctx.rl.timeoutId), ctx.nextId, ctx.sid,
                                    "debounce", ctx.t + ctx.rl.ms, args),
              !.rl.timeoutId = ctx.nextId,
              !.nextId = @ + 1]

\* the function throttle(fn, ms) returns
throttle(ctx, args) ==
  IF ctx.t - ctx.rl.lastRun >= ctx.rl.ms
  THEN LET c == fn(ctx, args, "sync") IN
       IF c.halt = "throw" THEN c ELSE [c EXCEPT !.rl.lastRun = ctx.t]
  ELSE [ctx EXCEPT !.timers = setTimeout(clearTimeout(@, ctx.rl.timeoutId), ctx.nextId, ctx.sid,
                                         "throttle",
                                         ctx.t + (ctx.rl.ms - (ctx.t - ctx.rl.lastRun)), args),
                   !.rl.timeoutId = ctx.nextId,
                   !.nextId = @ + 1]

\* a resolution that looks at throttle before debounce
PolicyThrottleFirst(opts) ==
  IF opts.throttle # 0 THEN [kind |-> "throttle", ms |-> opts.throttle]
  ELSE IF opts.debounce # 0 THEN [kind |-> "debounce", ms |-> opts.debounce]
  ELSE [kind |-> "none", ms |-> 0]

\* let callback = handler; if (debounceMs) ... else if (throttleMs) ...
Policy(opts) ==
  IF opts.debounce # 0 THEN [kind |-> "debounce", ms |-> opts.debounce]
  ELSE IF opts.throttle # 0 THEN [kind |-> "throttle", ms |-> opts.throttle]
  ELSE [kind |-> "none", ms |-> 0]

NewRl(opts) == [kind |-> Policy(opts).kind, ms |-> Policy(opts).ms, lastRun |-> 0, timeoutId |-> 0]

\* callback(...): the handler itself, or its debounced / throttled wrapper
callback(ctx, args) ==
  LET c == [ctx EXCEPT !.hist = Append(@, [sid |-> ctx.sid, args |-> args, at |-> ctx.t,
                                               ndisp |-> ctx.ndisp, aborted |-> ctx.aborted])] IN
  IF c.rl.kind = "debounce" THEN debounce(c, args)
  ELSE IF c.rl.kind = "throttle" THEN throttle(c, args)
  ELSE fn(c, args, "sync")

\* an ElementChangeInfo with nothing set
NoChange == [attrsSet |-> FALSE, attrs |-> {}, text |-> FALSE, childList |-> FALSE, records |-> <<>>]

ElArgs(el) == [el |-> el, change |-> NoChange]

(***************************************************************************)
(* The rate limiter on its own: one wrapped callback, called directly.     *)
(***************************************************************************)
DefaultOptions ==
  [root |-> Doc, subtree |-> TRUE, attributes |-> [isArray |-> FALSE, value |-> TRUE, names |-> {}],
   characterData |-> TRUE, childList |-> TRUE, debounce |-> 0, throttle |-> 0,
   once |-> FALSE, signal |-> "none"]

RateOptions == {[DefaultOptions EXCEPT !.debounce = d, !.throttle = t] :
                  d \in {0, RateMs}, t \in {0, RateMs}}

InitRate ==
  /\ children = [n \in Nodes |-> IF n = Doc THEN <<Body>> ELSE <<>>]
  /\ nops = 0
  /\ attrs = InitialAttributes
  /\ sessions = [s \in {1} |-> [kind |-> "bare", target |-> Selector]]
  /\ \E o \in RateOptions : options = [s \in {1} |-> o]
  /\ obs = [s \in {1} |-> [connected |-> FALSE, queue |-> <<>>, transient |-> {}]]
  /\ rl = [s \in {1} |-> NewRl(options[s])]
  /\ timers = {}
  /\ nextTimerId = 1
  /\ now = Epoch
  /\ aborted = FALSE
  /\ ndisp = [s \in {1} |-> 0]
  /\ log = <<>>
  /\ hist = <<>>
  /\ last = OtherStep
  /\ promise = <<>>

\* the wrapped callback is called with an element
CallWrapped(s, el, throwAt) ==
  /\ Len(hist) < MaxCalls
  /\ LET c == callback(Ctx(s, throwAt), ElArgs(el)) IN
     /\ rl' = [rl EXCEPT ![s] = c.rl]
     /\ timers' = c.timers
     /\ nextTimerId' = c.nextId
     /\ log' = c.log
     /\ hist' = c.hist
  /\ last' = OtherStep
  /\ UNCHANGED <<promise, children, nops, sessions, attrs, options, obs, now, aborted, ndisp>>

\* one millisecond passes
Tick ==
  /\ now < Epoch + MaxTime
  /\ now' = now + 1
  /\ last' = OtherStep
  /\ UNCHANGED <<promise, children, nops, sessions, attrs, options, obs, rl, timers, nextTimerId,
                 aborted, ndisp, log, hist>>

\* the timer queue services a due debounce / throttle timer
FireTimer(tm, throws) ==
  /\ tm \in timers
  /\ tm.kind \in {"debounce", "throttle"}
  /\ tm.due <= now
  /\ LET c == fn(Ctx(tm.owner, IF throws THEN 1 ELSE 0), tm.args, "timer") IN
     /\ log' = c.log
     /\ rl' = IF tm.kind = "throttle" /\ c.halt # "throw"
              THEN [rl EXCEPT ![tm.owner].lastRun = now]
              ELSE rl
  /\ timers' = timers \ {tm}
  /\ last' = OtherStep
  /\ UNCHANGED <<promise, children, nops, sessions, attrs, options, obs, nextTimerId, now, aborted, ndisp, hist>>

\* the handler returns normally or throws, in a direct call and in a timer
NextRate ==
  \/ \E el \in {"a", "b"}, throwAt \in {0, 1} : CallWrapped(1, el, throwAt)
  \/ Tick
  \/ \E tm \in timers, throws \in BOOLEAN : FireTimer(tm, throws)

SpecRate == InitRate /\ [][NextRate]_vars

(***************************************************************************)
(* Histories of one session.                                               *)
(***************************************************************************)
HistOf(s) == SelectSeq(hist, LAMBDA h : h.sid = s)
LogOf(s) == SelectSeq(log, LAMBDA l : l.sid = s)
TimersOf(s) == {t \in timers : t.owner = s /\ t.kind \in {"debounce", "throttle"}}

\* every call arrived less than ms after the call before it
AllClose(h, ms) == \A i \in 2..Len(h) : h[i].at - h[i-1].at < ms
\* every call arrived at least ms after the call before it
AllSpaced(h, ms) == \A i \in 2..Len(h) : h[i].at - h[i-1].at >= ms

(***************************************************************************)
(* C9. Debounce(ms): N >= 1 calls, each less than ms after the one before, *)
(* run the handler exactly once: never more than once, not before ms have  *)
(* passed since the last call, with the last call's arguments, and until   *)
(* then exactly one timer, due ms after the last call and holding the last *)
(* call's arguments, is pending. At most one debounce timer is pending at  *)
(* any time, whatever the spacing of the calls.                            *)
(***************************************************************************)
C9_DebounceCollapses ==
  \A s \in DOMAIN rl : rl[s].kind = "debounce" =>
    LET h == HistOf(s)
        l == LogOf(s)
        pend == TimersOf(s)
        ms == rl[s].ms IN
    /\ Cardinality(pend) <= 1
    /\ (h # <<>> /\ AllClose(h, ms)) =>
         LET final == h[Len(h)] IN
         /\ Len(l) + Cardinality(pend) = 1
         /\ \A t \in pend : t.args = final.args /\ t.due = final.at + ms
         /\ \A i \in DOMAIN l : /\ l[i].args = final.args
                                /\ l[i].at >= final.at + ms
                                /\ l[i].via = "timer"

\* three close calls with different arguments have collapsed into one execution
C9_Witness ==
  /\ rl[1].kind = "debounce"
  /\ Len(HistOf(1)) = 3
  /\ AllClose(HistOf(1), rl[1].ms)
  /\ HistOf(1)[1].at < HistOf(1)[2].at
  /\ HistOf(1)[2].args # HistOf(1)[3].args
  /\ Len(LogOf(1)) = 1
  /\ LogOf(1)[1].args = HistOf(1)[3].args

(***************************************************************************)
(* C10. Throttle(ms): (a) the first call runs the handler immediately;     *)
(* (b) a call that arrives inside the window of the execution before it    *)
(* (for instance ms/2 after it) does not run immediately: it runs once,    *)
(* with its own arguments, from a timer due ms after that execution;       *)
(* (c) calls that are each at least ms after the call before them all run  *)
(* immediately, one execution per call, and no timer is involved.          *)
(***************************************************************************)
C10_Throttle ==
  \A s \in DOMAIN rl : rl[s].kind = "throttle" =>
    LET h == HistOf(s)
        l == LogOf(s)
        pend == TimersOf(s)
        ms == rl[s].ms IN
    /\ h # <<>> => /\ l # <<>>
                   /\ l[1].args = h[1].args /\ l[1].at = h[1].at /\ l[1].via = "sync"
    /\ (Len(h) = 2 /\ h[2].at - h[1].at < ms) =>
         /\ \A i \in DOMAIN l : l[i].via = "sync" => i = 1
         /\ \/ /\ Len(l) = 1
               /\ pend = {[id |-> rl[s].timeoutId, owner |-> s, kind |-> "throttle",
                            due |-> h[1].at + ms, args |-> h[2].args]}
            \/ /\ Len(l) = 2
               /\ pend = {}
               /\ l[2].args = h[2].args /\ l[2].via = "timer" /\ l[2].at >= h[1].at + ms
    /\ AllSpaced(h, ms) =>
         /\ pend = {}
         /\ Len(l) = Len(h)
         /\ \A i \in DOMAIN h : l[i].args = h[i].args /\ l[i].at = h[i].at /\ l[i].via = "sync"

(***************************************************************************)
(* C11. Throttle(ms): when, after an immediate execution, several calls    *)
(* arrive inside that execution's window, at most one trailing timer is    *)
(* pending at any time; it is due when the window closes; the handler runs *)
(* from it exactly once, with the arguments of the most recent deferred    *)
(* call, and the earlier deferred calls never run. Step by step: a call    *)
(* inside the window runs nothing and leaves exactly one timer, its own,   *)
(* due at the end of the window; a trailing timer that fires runs the      *)
(* handler once with the timer's arguments and records the time of the     *)
(* firing as the new last-execution time.                                  *)
(***************************************************************************)
C11_Window ==
  \A s \in DOMAIN rl : rl[s].kind = "throttle" =>
    LET h == HistOf(s)
        l == LogOf(s)
        pend == TimersOf(s)
        ms == rl[s].ms IN
    /\ Cardinality(pend) <= 1
    /\ (Len(h) >= 3 /\ \A i \in 2..Len(h) : h[i].at < h[1].at + ms) =>
         LET recent == h[Len(h)] IN
         /\ Len(l) + Cardinality(pend) = 2
         /\ l[1].args = h[1].args /\ l[1].via = "sync"
         /\ \A t \in pend : t.args = recent.args /\ t.due = h[1].at + ms
         /\ Len(l) = 2 => /\ l[2].args = recent.args /\ l[2].via = "timer"
                          /\ l[2].at >= h[1].at + ms
                          /\ rl[s].lastRun = l[2].at

C11_Step ==
  \A s \in DOMAIN rl : rl[s].kind = "throttle" =>
    /\ (/\ Len(hist') = Len(hist) + 1
        /\ hist'[Len(hist')].sid = s
        /\ now - rl[s].lastRun < rl[s].ms) =>
         /\ log' = log
         /\ TimersOf(s)' = {[id |-> rl'[s].timeoutId, owner |-> s, kind |-> "throttle",
                             due |-> rl[s].lastRun + rl[s].ms,
                             args |-> hist'[Len(hist')].args]}
    /\ \A tm \in TimersOf(s) : (tm \notin timers' /\ hist' = hist) =>
         /\ Len(log') = Len(log) + 1
         /\ log'[Len(log')].args = tm.args /\ log'[Len(log')].via = "timer"
         /\ log'[Len(log')].at = now
         /\ rl'[s].lastRun = now

C11_ThrottleTrailing == []C11_Window /\ [][C11_Step]_vars

(***************************************************************************)
(* The MutationObserver primitive.                                         *)
(***************************************************************************)
\* the options each watch function passes to observer.observe(root, ...)
ObserveOptionsNoFilter(kind, opts) ==
  IF kind = "modified"
  THEN [childList |-> opts.childList, attributes |-> TRUE, attributeFilter |-> AllAttrNames,
        characterData |-> opts.characterData, subtree |-> opts.subtree]
  ELSE IF kind = "waitForChange"
  THEN [childList |-> TRUE, attributes |-> TRUE, attributeFilter |-> AllAttrNames,
        characterData |-> TRUE, subtree |-> opts.subtree]
  ELSE [childList |-> TRUE, attributes |-> FALSE, attributeFilter |-> AllAttrNames,
        characterData |-> FALSE, subtree |-> opts.subtree]
\* an observe() that passes the attributes option on as the attributes flag
ObserveOptionsByFlag(kind, opts) ==
  IF kind = "modified"
  THEN [childList |-> opts.childList,
        attributes |-> opts.attributes.isArray \/ opts.attributes.value,
        attributeFilter |-> IF opts.attributes.isArray THEN opts.attributes.names ELSE AllAttrNames,
        characterData |-> opts.characterData, subtree |-> opts.subtree]
  ELSE IF kind = "waitForChange"
  THEN [childList |-> TRUE, attributes |-> TRUE, attributeFilter |-> AllAttrNames,
        characterData |-> TRUE, subtree |-> opts.subtree]
  ELSE [childList |-> TRUE, attributes |-> FALSE, attributeFilter |-> AllAttrNames,
        characterData |-> FALSE, subtree |-> opts.subtree]
ObserveOptions(kind, opts) ==
  IF kind = "modified"
  THEN [childList |-> opts.childList, attributes |-> TRUE,
        attributeFilter |-> IF opts.attributes.isArray THEN opts.attributes.names ELSE AllAttrNames,
        characterData |-> opts.characterData, subtree |-> opts.subtree]
  ELSE IF kind = "waitForChange"
  THEN [childList |-> TRUE, attributes |-> TRUE, attributeFilter |-> AllAttrNames,
        characterData |-> TRUE, subtree |-> opts.subtree]
  ELSE [childList |-> TRUE, attributes |-> FALSE, attributeFilter |-> AllAttrNames,
        characterData |-> FALSE, subtree |-> opts.subtree]

\* whether the observer of session s records a mutation of this type on node
Interested(s, node, type, attr) ==
  LET o == ObserveOptions(sessions[s].kind, options[s])
      anc == Ancestors(children, node) IN
  /\ obs[s].connected
  /\ \/ node = options[s].root
     \/ o.subtree /\ options[s].root \in anc
     \/ node \in obs[s].transient
     \/ obs[s].transient \cap anc # {}
  /\ \/ type = "childList" /\ o.childList
     \/ type = "attributes" /\ o.attributes /\ attr \in o.attributeFilter
     \/ type = "characterData" /\ o.characterData

Record(type, target, added, removed, attr) ==
  [id |-> nops + 1, type |-> type, target |-> target, added |-> added,
   removed |-> removed, attr |-> attr]

\* queue the record with every interested observer
Enqueue(rec) ==
  [s \in DOMAIN obs |->
     IF Interested(s, rec.target, rec.type, rec.attr)
     THEN [obs[s] EXCEPT !.queue = Append(@, rec)]
     ELSE obs[s]]

\* observer.disconnect(): stop observing and drop the records not yet delivered
disconnect(o) == [connected |-> FALSE, queue |-> <<>>, transient |-> {}]

(***************************************************************************)
(* The page mutates the DOM.                                               *)
(***************************************************************************)
Detached(n) == Parent(children, n) = None

\* the number of mutations a behaviour makes: one more when several sessions observe
OpsBound == IF Cardinality(DOMAIN sessions) > 1 THEN MaxSelOps ELSE MaxOps

\* p.append(...ns): one childList record whose addedNodes are ns
AppendNodes(p, ns) ==
  /\ nops < OpsBound
  /\ p \in Elements
  /\ \A i \in DOMAIN ns : /\ ns[i] \in Movable \cup TextNodes
                          /\ Detached(ns[i])
                          /\ ns[i] # p
                          /\ ns[i] \notin Ancestors(children, p)
  /\ children' = [children EXCEPT ![p] = @ \o ns]
  /\ obs' = Enqueue(Record("childList", p, ns, <<>>, None))
  /\ nops' = nops + 1
  /\ last' = MutationStep(Record("childList", p, ns, <<>>, None))
  /\ UNCHANGED <<promise, sessions, attrs, options, rl, timers, nextTimerId, now, aborted, ndisp, log, hist>>

\* n.remove(): one childList record on the parent; observers of the parent's
\* subtree keep observing the removed subtree until the next microtask
\* checkpoint
RemoveNode(n) ==
  /\ nops < OpsBound
  /\ n \in Movable \cup TextNodes
  /\ ~Detached(n)
  /\ LET p == Parent(children, n)
         q == Enqueue(Record("childList", p, <<>>, <<n>>, None)) IN
     /\ children' = [children EXCEPT ![p] = SelectSeq(@, LAMBDA x : x # n)]
     /\ obs' = [s \in DOMAIN obs |->
                  IF /\ obs[s].connected
                     /\ ObserveOptions(sessions[s].kind, options[s]).subtree
                     /\ \/ ({p} \cup Ancestors(children, p)) \cap ({options[s].root} \cup obs[s].transient) # {}
                  THEN [q[s] EXCEPT !.transient = @ \cup {n}]
                  ELSE q[s]]
  /\ nops' = nops + 1
  /\ last' = MutationStep(Record("childList", Parent(children, n), <<>>, <<n>>, None))
  /\ UNCHANGED <<promise, sessions, attrs, options, rl, timers, nextTimerId, now, aborted, ndisp, log, hist>>

\* "replace all" of the DOM: the children of el are replaced by ns, which gives one
\* childList record on el, or none when there was no child and there is none now;
\* observers of el's subtree keep observing the removed subtrees until the next
\* microtask checkpoint
ReplaceAll(el, ns) ==
  /\ el \in Elements
  /\ IF children[el] = <<>> /\ ns = <<>>
     THEN UNCHANGED <<children, obs, nops, last>>
     ELSE /\ nops < OpsBound
          /\ LET rec == Record("childList", el, ns, children[el], None)
                 q == Enqueue(rec) IN
             /\ children' = [children EXCEPT ![el] = ns]
             /\ obs' = [s \in DOMAIN obs |->
                          IF /\ obs[s].connected
                             /\ ObserveOptions(sessions[s].kind, options[s]).subtree
                             /\ ({el} \cup Ancestors(children, el))
                                  \cap ({options[s].root} \cup obs[s].transient) # {}
                          THEN [q[s] EXCEPT !.transient = @ \cup Range(children[el])]
                          ELSE q[s]]
             /\ last' = MutationStep(rec)
          /\ nops' = nops + 1
  /\ UNCHANGED <<promise, sessions, options, rl, timers, nextTimerId, now, aborted, ndisp, log, hist>>

\* el.textContent = text: the children of el are replaced by one new text node, or
\* by nothing when text is the empty string (never a characterData record)
SetTextContent(el, text) ==
  /\ el \in DOMAIN attrs
  /\ IF text = "" THEN ReplaceAll(el, <<>>)
     ELSE ReplaceAll(el, <<CreatedText[nops + 1]>>)
  /\ UNCHANGED attrs

\* el.innerHTML = html: the children of el are replaced by the nodes parsed from
\* html, here nothing ('') or one new element ('<div class="x"></div>')
SetInnerHTML(el, html) ==
  /\ el \in DOMAIN attrs
  /\ html \in {"", "<div class=\"x\"></div>"}
  /\ IF html = ""
     THEN ReplaceAll(el, <<>>) /\ UNCHANGED attrs
     ELSE \E d \in Parsed \ DOMAIN attrs :
            /\ ReplaceAll(el, <<d>>)
            /\ attrs' = [e \in DOMAIN attrs \cup {d} |->
                           IF e = d THEN [n \in AllAttrNames |-> IF n = ClassAttr THEN "x" ELSE None]
                           ELSE attrs[e]]

\* some observer records a mutation of this type on node
Recorded(node, type, attr) == \E s \in DOMAIN obs : Interested(s, node, type, attr)

\* the records, in order, go to the observers whose options select them
RECURSIVE EnqueueAll(_, _)
EnqueueAll(q, recs) ==
  IF recs = <<>> THEN q
  ELSE EnqueueAll([s \in DOMAIN q |->
                     IF Interested(s, Head(recs).target, Head(recs).type, Head(recs).attr)
                     THEN [q[s] EXCEPT !.queue = Append(@, Head(recs))]
                     ELSE q[s]],
                  Tail(recs))

\* the attributes of el change as these steps say, one after the other, each step
\* [name, value] with one record
ChangeAttributes(el, steps) ==
  LET recs == [i \in DOMAIN steps |->
                 [Record("attributes", el, <<>>, <<>>, steps[i].name) EXCEPT !.id = nops + i]] IN
  /\ el \in DOMAIN attrs
  /\ nops + Len(steps) <= OpsBound
  /\ IF steps = <<>>
     THEN UNCHANGED <<attrs, obs, nops, last>>
     ELSE /\ attrs' = [attrs EXCEPT ![el] =
                         [n \in AllAttrNames |->
                            LET on == {i \in DOMAIN steps : steps[i].name = n} IN
                            IF on = {} THEN attrs[el][n]
                            ELSE steps[CHOOSE i \in on : \A k \in on : k <= i].value]]
          /\ obs' = EnqueueAll(obs, recs)
          /\ nops' = nops + Len(steps)
          /\ last' = [OtherStep EXCEPT !.act = "mutate", !.batch = recs]
  /\ UNCHANGED <<promise, children, sessions, options, rl, timers, nextTimerId, now, aborted,
                 ndisp, log, hist>>

\* el.setAttribute(name, value): one record, whatever the value was before
SetAttribute(el, name, value) ==
  /\ value # None
  /\ ChangeAttributes(el, <<[name |-> name, value |-> value]>>)

\* el.removeAttribute(name): one record when el has the attribute, nothing otherwise
RemoveAttribute(el, name) ==
  /\ el \in DOMAIN attrs
  /\ ChangeAttributes(el, IF attrs[el][name] = None THEN <<>>
                          ELSE <<[name |-> name, value |-> None]>>)

\* el.classList.add(...tokens), then el.classList.remove(...tokens): each call that is
\* made sets the class attribute anew (one record), save a remove on an element that
\* has no class attribute
ClassListSteps(value, add, remove) ==
  LET added == IF add = {} THEN value
               ELSE IF value = "x" \/ "x" \in add THEN "x" ELSE "v" IN
  (IF add = {} THEN <<>> ELSE <<[name |-> ClassAttr, value |-> added]>>)
  \o (IF remove = {} \/ added = None THEN <<>>
      ELSE <<[name |-> ClassAttr, value |-> IF "x" \in remove THEN "v" ELSE added]>>)

\* text.data = ...: a characterData record whose target is the text node
SetData(t) ==
  /\ nops < OpsBound
  /\ t \in TextNodes
  /\ \E s \in DOMAIN obs : Interested(s, t, "characterData", None)
  /\ obs' = Enqueue(Record("characterData", t, <<>>, <<>>, None))
  /\ nops' = nops + 1
  /\ last' = MutationStep(Record("characterData", t, <<>>, <<>>, None))
  /\ UNCHANGED <<promise, children, sessions, attrs, options, rl, timers, nextTimerId, now, aborted, ndisp, log, hist>>

(***************************************************************************)
(* The element helpers of element.ts, by which the page may make its       *)
(* mutations.                                                              *)
(***************************************************************************)
\* setClasses(el, { add, remove })
setClasses(el, add, remove) ==
  /\ el \in DOMAIN attrs
  /\ ChangeAttributes(el, ClassListSteps(attrs[el][ClassAttr], add, remove))

\* setAttributes(el, { [name]: value }), value None standing for undefined
setAttributes(el, name, value) ==
  IF value = None THEN RemoveAttribute(el, name) ELSE SetAttribute(el, name, value)

\* setText(el, text)
setText(el, text) == SetTextContent(el, text)

\* setHTML(el, html, { sanitize }); html is the string sanitize returned, if given
setHTML(el, html) == SetInnerHTML(el, html)

\* the calls of the helpers the page makes: on the matching element a and on the
\* container c; a class list loses or gains x, or gains another class
NextElement ==
  \/ \E el \in {"a", "c"}, ar \in {<<{"x"}, {}>>, <<{}, {"x"}>>, <<{"y"}, {}>>, <<{"y"}, {"x"}>>} :
       setClasses(el, ar[1], ar[2])
  \/ \E el \in {"a"}, value \in {None, "v"} : setAttributes(el, "data-test", value)
  \/ \E el \in {"a", "c"}, value \in {"v", "x"} : setAttributes(el, ClassAttr, value)
  \/ \E el \in {"a", "c"}, text \in {"", "new text"} : setText(el, text)
  \/ \E el \in {"a", "c"}, html \in {"", "<div class=\"x\"></div>"} : setHTML(el, html)

(***************************************************************************)
(* The observer callbacks of watchAdded, watchRemoved and watchModified.   *)
(* o is the session as its closure sees it: [target, subtree, once].       *)
(***************************************************************************)
Closure(s) == [target |-> sessions[s].target, subtree |-> options[s].subtree,
               once |-> options[s].once]

RECURSIVE ForEachMatch(_, _, _)
\* node.querySelectorAll(target).forEach((el) => { callback(el);
\*   if (once) { observer.disconnect(); return; } }): the return leaves the arrow
\* function only, so the remaining elements are still visited
ForEachMatch(ctx, o, els) ==
  IF els = <<>> \/ ctx.halt = "throw" THEN ctx
  ELSE LET c == callback(ctx, ElArgs(Head(els))) IN
       ForEachMatch(IF c.halt # "throw" /\ o.once THEN [c EXCEPT !.conn = FALSE] ELSE c,
                    o, Tail(els))

\* the body of the loop over mutation.addedNodes / mutation.removedNodes
VisitNodeNoDirect(ctx, o, node) ==
  IF IsElement(node) /\ o.subtree /\ o.target.kind = "selector"
  THEN ForEachMatch(ctx, o, QuerySelectorAll(children, node))
  ELSE ctx
VisitNode(ctx, o, node) ==
  IF ~IsElement(node) THEN ctx
  ELSE LET m == matchesTarget(node, o.target) IN
       IF m = "throw" THEN [ctx EXCEPT !.halt = "throw"]
       ELSE LET c1 == IF m = "true" THEN callback(ctx, ElArgs(node)) ELSE ctx
                c2 == IF m = "true" /\ c1.halt # "throw" /\ o.once
                      THEN [c1 EXCEPT !.conn = FALSE, !.halt = "return"]
                      ELSE c1 IN
            IF c2.halt # "run" THEN c2
            ELSE IF o.subtree /\ o.target.kind = "selector"
                 THEN ForEachMatch(c2, o, QuerySelectorAll(children, node))
                 ELSE c2

RECURSIVE VisitNodes(_, _, _)
VisitNodes(ctx, o, nodes) ==
  IF nodes = <<>> \/ ctx.halt # "run" THEN ctx
  ELSE VisitNodes(VisitNode(ctx, o, Head(nodes)), o, Tail(nodes))

RECURSIVE watchAddedObserver(_, _, _)
\* new MutationObserver((mutations) => ...) of watchAdded
watchAddedObserver(ctx, o, mutations) ==
  IF mutations = <<>> \/ ctx.halt # "run" THEN ctx
  ELSE LET m == Head(mutations) IN
       watchAddedObserver(IF m.type = "childList" THEN VisitNodes(ctx, o, m.added) ELSE ctx,
                          o, Tail(mutations))

RECURSIVE watchRemovedObserver(_, _, _)
\* new MutationObserver((mutations) => ...) of watchRemoved
watchRemovedObserver(ctx, o, mutations) ==
  IF mutations = <<>> \/ ctx.halt # "run" THEN ctx
  ELSE LET m == Head(mutations) IN
       watchRemovedObserver(IF m.type = "childList" THEN VisitNodes(ctx, o, m.removed) ELSE ctx,
                            o, Tail(mutations))

\* processChange(element), for the record of the current iteration; changes is
\* the Map as the sequence of its entries in insertion order
processChangeReplace(changes, element, record) ==
  LET idx == {i \in DOMAIN changes : changes[i].el = element}
      old == IF idx = {} THEN NoChange ELSE changes[CHOOSE i \in idx : TRUE].change
      pushed == [old EXCEPT !.records = Append(@, record)]
      new == IF record.type = "attributes"
             THEN [pushed EXCEPT !.attrsSet = TRUE, !.attrs = {record.attr}]
             ELSE IF record.type = "characterData" THEN [pushed EXCEPT !.text = TRUE]
             ELSE IF record.type = "childList" THEN [pushed EXCEPT !.childList = TRUE]
             ELSE pushed IN
  IF idx = {} THEN Append(changes, [el |-> element, change |-> new])
  ELSE [changes EXCEPT ![CHOOSE i \in idx : TRUE].change = new]
processChange(changes, element, record) ==
  LET idx == {i \in DOMAIN changes : changes[i].el = element}
      old == IF idx = {} THEN NoChange ELSE changes[CHOOSE i \in idx : TRUE].change
      pushed == [old EXCEPT !.records = Append(@, record)]
      new == IF record.type = "attributes"
             THEN [pushed EXCEPT !.attrsSet = TRUE, !.attrs = @ \cup {record.attr}]
             ELSE IF record.type = "characterData" THEN [pushed EXCEPT !.text = TRUE]
             ELSE IF record.type = "childList" THEN [pushed EXCEPT !.childList = TRUE]
             ELSE pushed IN
  IF idx = {} THEN Append(changes, [el |-> element, change |-> new])
  ELSE [changes EXCEPT ![CHOOSE i \in idx : TRUE].change = new]

RECURSIVE ProcessAll(_, _, _)
\* mutationTarget.querySelectorAll(target).forEach(processChange)
ProcessAll(changes, els, record) ==
  IF els = <<>> THEN changes
  ELSE ProcessAll(processChange(changes, Head(els), record), Tail(els), record)

RECURSIVE Aggregate(_, _, _)
\* for (const record of records) { ... }: acc is [changes, halt]
Aggregate(acc, o, records) ==
  IF records = <<>> \/ acc.halt # "run" THEN acc
  ELSE LET record == Head(records)
           mutationTarget == record.target IN
       IF ~IsElement(mutationTarget) THEN Aggregate(acc, o, Tail(records))
       ELSE LET m == matchesTarget(mutationTarget, o.target) IN
            IF m = "throw" THEN [acc EXCEPT !.halt = "throw"]
            ELSE LET c1 == IF m = "true" THEN processChange(acc.changes, mutationTarget, record)
                           ELSE acc.changes
                     c2 == IF o.subtree /\ o.target.kind = "selector"
                           THEN ProcessAll(c1, QuerySelectorAll(children, mutationTarget), record)
                           ELSE c1 IN
                 Aggregate([acc EXCEPT !.changes = c2], o, Tail(records))

ForEachChangeFirst(ctx, o, changes) ==
  IF changes = <<>> THEN ctx ELSE callback(ctx, Head(changes))
RECURSIVE ForEachChange(_, _, _)
\* changes.forEach((change, element) => { callback(element, change);
\*   if (once) observer.disconnect(); })
ForEachChange(ctx, o, changes) ==
  IF changes = <<>> \/ ctx.halt = "throw" THEN ctx
  ELSE LET c == callback(ctx, Head(changes)) IN
       ForEachChange(IF c.halt # "throw" /\ o.once THEN [c EXCEPT !.conn = FALSE] ELSE c,
                     o, Tail(changes))

\* new MutationObserver((records) => ...) of watchModified
watchModifiedObserverStale(ctx, o, records) ==
  LET kept == IF ctx.log = <<>> THEN <<>> ELSE <<ctx.log[Len(ctx.log)].args>>
      acc == Aggregate([changes |-> kept, halt |-> "run"], o, records) IN
  IF acc.halt = "throw" THEN [ctx EXCEPT !.halt = "throw"]
  ELSE ForEachChange(ctx, o, acc.changes)
watchModifiedObserver(ctx, o, records) ==
  LET acc == Aggregate([changes |-> <<>>, halt |-> "run"], o, records) IN
  IF acc.halt = "throw" THEN [ctx EXCEPT !.halt = "throw"]
  ELSE ForEachChange(ctx, o, acc.changes)

ObserverCallback(ctx, kind, o, records) ==
  IF kind = "added" THEN watchAddedObserver(ctx, o, records)
  ELSE IF kind = "removed" THEN watchRemovedObserver(ctx, o, records)
  ELSE watchModifiedObserver(ctx, o, records)

(***************************************************************************)
(* The steps of a session.                                                 *)
(***************************************************************************)
\* notify mutation observers at a microtask checkpoint: an observer with no
\* queued record is not called, and its observation of removed subtrees (its
\* transient registered observers) ends there all the same
AtCheckpoint(q) ==
  [s \in DOMAIN q |-> IF q[s].queue = <<>> THEN [q[s] EXCEPT !.transient = {}] ELSE q[s]]

\* a delivery that detaches the observer when the callback throws
DeliverDetachOnThrow(s, throwAt) ==
  /\ obs[s].connected
  /\ obs[s].queue # <<>>
  /\ LET batch == obs[s].queue
         c == ObserverCallback(Ctx(s, throwAt), sessions[s].kind, Closure(s), batch) IN
     /\ obs' = AtCheckpoint([obs EXCEPT ![s] = [connected |-> c.conn /\ c.halt # "throw",
                                                queue |-> <<>>, transient |-> {}]])
     /\ rl' = [rl EXCEPT ![s] = c.rl]
     /\ timers' = c.timers
     /\ nextTimerId' = c.nextId
     /\ log' = c.log
     /\ hist' = c.hist
     /\ last' = [act |-> "deliver", sid |-> s, batch |-> batch, halt |-> c.halt,
                 calls |-> SubSeq(c.log, Len(log) + 1, Len(c.log))]
  /\ UNCHANGED <<promise, children, nops, sessions, attrs, options, now, aborted, ndisp>>

\* the observer's queued records are delivered to its callback as one batch
Deliver(s, throwAt) ==
  /\ obs[s].connected
  /\ obs[s].queue # <<>>
  /\ LET batch == obs[s].queue
         c == ObserverCallback(Ctx(s, throwAt), sessions[s].kind, Closure(s), batch) IN
     /\ obs' = AtCheckpoint([obs EXCEPT ![s] = [connected |-> c.conn, queue |-> <<>>,
                                                transient |-> {}]])
     /\ rl' = [rl EXCEPT ![s] = c.rl]
     /\ timers' = c.timers
     /\ nextTimerId' = c.nextId
     /\ log' = c.log
     /\ hist' = c.hist
     /\ last' = [act |-> "deliver", sid |-> s, batch |-> batch, halt |-> c.halt,
                 calls |-> SubSeq(c.log, Len(log) + 1, Len(c.log))]
  /\ UNCHANGED <<promise, children, nops, sessions, attrs, options, now, aborted, ndisp>>

\* the task ends and the microtask checkpoint finds no observer with a queued
\* record: no callback runs, the observation of removed subtrees ends
Checkpoint ==
  /\ \A s \in DOMAIN obs : obs[s].queue = <<>>
  /\ \E s \in DOMAIN obs : obs[s].transient # {}
  /\ obs' = AtCheckpoint(obs)
  /\ last' = OtherStep
  /\ UNCHANGED <<promise, children, nops, sessions, attrs, options, rl, timers, nextTimerId, now,
                 aborted, ndisp, log, hist>>

\* the Dispose function the watch function returned: () => observer.disconnect()
DisposeNoop(s) ==
  /\ ndisp[s] < MaxDispose
  /\ ndisp' = [ndisp EXCEPT ![s] = @ + 1]
  /\ last' = OtherStep
  /\ UNCHANGED <<promise, children, nops, sessions, attrs, options, obs, rl, timers, nextTimerId, now, aborted,
                 log, hist>>
Dispose(s) ==
  /\ ndisp[s] < MaxDispose
  /\ obs' = [obs EXCEPT ![s] = disconnect(@)]
  /\ ndisp' = [ndisp EXCEPT ![s] = @ + 1]
  /\ last' = OtherStep
  /\ UNCHANGED <<promise, children, nops, sessions, attrs, options, rl, timers, nextTimerId, now, aborted,
                 log, hist>>

\* controller.abort(): the first call dispatches 'abort' to the listeners the
\* sessions added, () => observer.disconnect(); a later call does nothing
HasListener(s) == options[s].signal # "none"
AbortNoop ==
  /\ aborted' = TRUE
  /\ last' = OtherStep
  /\ UNCHANGED <<promise, children, nops, sessions, attrs, options, obs, rl, timers, nextTimerId, now, ndisp,
                 log, hist>>
\* a signal that dispatches 'abort' at every call of controller.abort()
AbortRefire ==
  /\ \E s \in DOMAIN obs : HasListener(s)
  /\ aborted' = TRUE
  /\ obs' = [s \in DOMAIN obs |-> IF HasListener(s) THEN disconnect(obs[s]) ELSE obs[s]]
  /\ last' = OtherStep
  /\ UNCHANGED <<promise, children, nops, sessions, attrs, options, rl, timers, nextTimerId, now, ndisp,
                 log, hist>>
Abort ==
  /\ \E s \in DOMAIN obs : HasListener(s)
  /\ aborted' = TRUE
  /\ obs' = IF aborted THEN obs
            ELSE [s \in DOMAIN obs |-> IF HasListener(s) THEN disconnect(obs[s]) ELSE obs[s]]
  /\ last' = OtherStep
  /\ UNCHANGED <<promise, children, nops, sessions, attrs, options, rl, timers, nextTimerId, now, ndisp,
                 log, hist>>

(***************************************************************************)
(* One observation session, not rate limited.                              *)
(***************************************************************************)
\* the trees the page may hold when the session is created
InitDoms ==
  LET base == [n \in Nodes |-> IF n = Doc THEN <<Body>> ELSE <<>>] IN
  { base,
    [base EXCEPT !["c"] = <<"a", "b">>],
    [base EXCEPT ![Body] = <<"c">>, !["c"] = <<"a", "b">>],
    [base EXCEPT ![Body] = <<"a", "b">>, !["a"] = <<"t">>] }

Targets == {Selector, ElementRef("a"), Predicate({"a", "b"}, {})}

\* document with its subtree (the default), or the children of body alone
ObsOptions == {[DefaultOptions EXCEPT !.root = IF st THEN Doc ELSE Body,
                                      !.subtree = st, !.once = on, !.signal = "live"] :
                 st \in BOOLEAN, on \in BOOLEAN}

InitSession(domSet, kindSet, targetSet, optionSet) ==
  /\ children \in domSet
  /\ nops = 0
  /\ attrs = InitialAttributes
  /\ \E k \in kindSet, t \in targetSet :
       sessions = [s \in {1} |-> [kind |-> k, target |-> t]]
  /\ \E o \in optionSet : options = [s \in {1} |-> o]
  /\ obs = [s \in {1} |-> [connected |-> TRUE, queue |-> <<>>, transient |-> {}]]
  /\ rl = [s \in {1} |-> NewRl(options[s])]
  /\ timers = {}
  /\ nextTimerId = 1
  /\ now = Epoch
  /\ aborted = (options[1].signal = "aborted")
  /\ ndisp = [s \in {1} |-> 0]
  /\ log = <<>>
  /\ hist = <<>>
  /\ last = OtherStep
  /\ promise = <<>>

InitObs == InitSession(InitDoms, {"added", "removed", "modified"}, Targets, ObsOptions)

\* what the page appends: one element, or two at once, to body or to the
\* container c; the text node to a
Appendable == {<<n>> : n \in Movable} \cup {<<"a", "b">>, <<"c", "b">>}

\* the page sets data-test, or sets class to a value without x (the element matches
\* the selector no longer), on an element whose attributes an observer records
NextDom ==
  \/ \E p \in {Body, "c"}, ns \in Appendable : AppendNodes(p, ns)
  \/ AppendNodes("a", <<"t">>)
  \/ \E n \in Movable \cup {"t"} : RemoveNode(n)
  \/ \E el \in Elements, name \in {"data-test", ClassAttr} :
       Recorded(el, "attributes", name) /\ SetAttribute(el, name, "v")
  \/ \E t \in TextNodes : SetData(t)
  \/ SetTextContent("a", "new text")

\* faults: the indexes of the handler invocation of a delivery that may throw
NextSession(faults) ==
  \/ NextDom
  \/ \E s \in DOMAIN obs, throwAt \in faults : Deliver(s, throwAt)
  \/ \E s \in DOMAIN obs : Dispose(s)
  \/ Abort

NextObs == NextSession({0, 1})

SpecObs == InitObs /\ [][NextObs]_vars

(***************************************************************************)
(* One observation session with a debounced or throttled callback: the     *)
(* clock runs and the timer queue is serviced.                             *)
(***************************************************************************)
RatedOptions == {[DefaultOptions EXCEPT !.debounce = d, !.throttle = RateMs - d,
                                        !.once = on, !.signal = "live"] :
                   d \in {0, RateMs}, on \in BOOLEAN}

\* nothing attached yet, or a (with its text) and b under body
RatedDoms == {d \in InitDoms : d["c"] = <<>>}

InitObsRate == InitSession(RatedDoms, {"added", "modified"}, {Selector}, RatedOptions)

\* a session can tell that time passes only while one of its timers is pending or
\* its throttle window is open
Timed == \/ timers # {}
         \/ \E s \in DOMAIN rl : rl[s].kind = "throttle" /\ now - rl[s].lastRun < rl[s].ms

\* the handlers of this specification return normally
NextObsRate ==
  \/ NextSession({0})
  \/ Timed /\ Tick
  \/ \E tm \in timers : FireTimer(tm, FALSE)

SpecObsRate == InitObsRate /\ [][NextObsRate]_vars

(***************************************************************************)
(* One observation session on a page that changes through the helpers of   *)
(* element.ts.                                                             *)
(***************************************************************************)
\* the page makes its changes through the helpers of element.ts, whether an
\* observer records them or not, and moves a and c in and out of body
InitElement == InitSession(RatedDoms, {"added", "removed", "modified"}, {Selector},
                           {o \in ObsOptions : ~o.once})

NextElementObs ==
  \/ NextElement
  \/ \E n \in {"a", "c"} : AppendNodes(Body, <<n>>)
  \/ \E n \in {"a", "c"} : RemoveNode(n)
  \/ \E s \in DOMAIN obs : Deliver(s, 0)
  \/ \E s \in DOMAIN obs : Dispose(s)
  \/ Abort

SpecElement == InitElement /\ [][NextElementObs]_vars

(***************************************************************************)
(* What a delivery was about.                                              *)
(***************************************************************************)
RECURSIVE AddedElements(_)
\* the elements the batch's records added, in delivery order
AddedElements(batch) ==
  IF batch = <<>> THEN <<>>
  ELSE (IF Head(batch).type = "childList" THEN SelectSeqBy(Head(batch).added, Elements)
        ELSE <<>>) \o AddedElements(Tail(batch))

CalledWith(calls) == [i \in DOMAIN calls |-> calls[i].args.el]

Unlimited(s) == sessions[s].kind # "bare" /\ rl[s].kind = "none"
NoFault(s) == \A i \in DOMAIN log : log[i].sid = s => ~log[i].threw

(***************************************************************************)
(* C1. watchAdded with a Selector target, no debounce/throttle, once=false:*)
(* when no element a batch adds has a matching descendant to fan out to,   *)
(* the batch's processing invokes the handler, synchronously, with exactly *)
(* the added elements that match the selector, in order (up to the         *)
(* invocation that throws, if one does). So a batch adding one matching    *)
(* element makes exactly one invocation, with that element, and an added   *)
(* element that does not match makes none.                                 *)
(***************************************************************************)
C1_WatchAddedSelector ==
  LET s == last.sid IN
  (/\ last.act = "deliver"
   /\ sessions[s].kind = "added" /\ sessions[s].target.kind = "selector"
   /\ Unlimited(s) /\ ~options[s].once
   /\ \A e \in Range(AddedElements(last.batch)) :
        ~options[s].subtree \/ QuerySelectorAll(children, e) = <<>>) =>
    LET expected == SelectSeq(AddedElements(last.batch), ElMatches)
        got == CalledWith(last.calls) IN
    /\ IF last.halt = "throw"
       THEN got # <<>> /\ got = SubSeq(expected, 1, Len(got))
       ELSE got = expected
    /\ \A i \in DOMAIN last.calls : last.calls[i].via = "sync" /\ last.calls[i].at = now

\* a batch of one record that added the matching element a alone: one invocation, with a
C1_Witness ==
  /\ last.act = "deliver"
  /\ sessions[1].kind = "added" /\ sessions[1].target.kind = "selector"
  /\ ~options[1].once
  /\ Len(last.batch) = 1
  /\ last.batch[1].added = <<"a">>
  /\ QuerySelectorAll(children, "a") = <<>>
  /\ CalledWith(last.calls) = <<"a">>

(***************************************************************************)
(* C2. watchAdded / watchRemoved with once=true: the handler is invoked at *)
(* most once in the life of the session (stated here for the sessions      *)
(* whose handler never threw).                                             *)
(***************************************************************************)
C2_OnceAtMostOneCall ==
  \A s \in DOMAIN sessions :
    (sessions[s].kind \in {"added", "removed"} /\ options[s].once /\ NoFault(s)) =>
      Len(LogOf(s)) <= 1

(***************************************************************************)
(* C3. watchAdded with once=true and no rate limiting, where only elements *)
(* that match directly are delivered (the target is no selector, or        *)
(* subtree is off): however the matching elements are added, in one batch  *)
(* or in successive ones, the handler is invoked at most once, for the     *)
(* first of them.                                                          *)
(***************************************************************************)
C3_OnceFirstMatchOnly ==
  \A s \in DOMAIN sessions :
    (/\ sessions[s].kind = "added" /\ options[s].once /\ Unlimited(s)
     /\ (sessions[s].target.kind # "selector" \/ ~options[s].subtree)) =>
      Len(LogOf(s)) <= 1

(***************************************************************************)
(* C4. watchModified with once=true: a batch that yields ChangeInfo for    *)
(* several elements invokes the handler for the first of them only.        *)
(***************************************************************************)
C4_ModifiedOnceFirstOnly ==
  (/\ last.act = "deliver"
   /\ sessions[last.sid].kind = "modified" /\ options[last.sid].once) =>
    Len(last.calls) <= 1

(***************************************************************************)
(* C5. once=true: whenever the user handler is invoked, the session's      *)
(* observer is already detached.                                           *)
(***************************************************************************)
C5_DetachedBeforeCallback ==
  \A i \in DOMAIN log :
    (sessions[log[i].sid].kind # "bare" /\ options[log[i].sid].once) => ~log[i].conn

(***************************************************************************)
(* C6. A session without debounce/throttle: once the Disposer has been     *)
(* called the observer is detached with nothing queued, so no handler      *)
(* invocation ever happens after a Disposer call; and a Disposer call on a *)
(* session that is already detached (by an earlier call, by once or by the *)
(* signal) changes nothing but the count of calls.                         *)
(***************************************************************************)
C6_Disposed ==
  \A s \in DOMAIN sessions : Unlimited(s) =>
    /\ ndisp[s] > 0 => ~obs[s].connected /\ obs[s].queue = <<>> /\ obs[s].transient = {}
    /\ \A i \in DOMAIN log : log[i].sid = s => log[i].ndisp = 0

C6_DisposeAgain ==
  \A s \in DOMAIN sessions :
    (Unlimited(s) /\ ndisp'[s] # ndisp[s] /\ ~obs[s].connected) =>
      UNCHANGED <<promise, children, nops, sessions, attrs, options, obs, rl, timers, nextTimerId, now,
                  aborted, log, hist>>

C6_DisposerIsFinal == []C6_Disposed /\ [][C6_DisposeAgain]_vars

\* after two Disposer calls on a session that had delivered a callback, the page
\* appends the matching element a to body
C6_Witness ==
  /\ Unlimited(1) /\ sessions[1].kind = "added" /\ sessions[1].target.kind = "selector"
  /\ options[1].subtree
  /\ ndisp[1] >= 2
  /\ log # <<>>
  /\ last.act = "mutate"
  /\ last.batch[1].target = Body /\ last.batch[1].added = <<"a">>

(***************************************************************************)
(* C7. A debounced or throttled session: once the Disposer has been called *)
(* no debounce/throttle timer of the session is pending, and the handler   *)
(* is never invoked after a Disposer call.                                 *)
(***************************************************************************)
C7_DisposeCancelsTimer ==
  \A s \in DOMAIN sessions : (sessions[s].kind # "bare" /\ rl[s].kind # "none") =>
    /\ ndisp[s] > 0 => TimersOf(s) = {}
    /\ \A i \in DOMAIN log : log[i].sid = s => log[i].ndisp = 0

(***************************************************************************)
(* C8. A session created with a signal that had not fired: once the signal *)
(* has fired the observer is detached with nothing queued, the session's   *)
(* callback is never called after the firing (so no later mutation reaches *)
(* the handler), and from then on no step - a Disposer call, a second      *)
(* abort(), a mutation - changes the observer or makes a delivery.         *)
(***************************************************************************)
C8_Aborted ==
  \A s \in DOMAIN sessions : (sessions[s].kind # "bare" /\ options[s].signal = "live") =>
    /\ aborted => ~obs[s].connected /\ obs[s].queue = <<>> /\ obs[s].transient = {}
    /\ \A i \in DOMAIN hist : hist[i].sid = s => ~hist[i].aborted
    /\ \A i \in DOMAIN log : (log[i].sid = s /\ log[i].via = "sync") => ~log[i].aborted

C8_AfterAbort ==
  \A s \in DOMAIN sessions :
    (sessions[s].kind # "bare" /\ options[s].signal = "live" /\ aborted) =>
      /\ obs'[s] = obs[s]
      /\ last'.act # "deliver"
      /\ hist' = hist

C8_SignalDetaches == []C8_Aborted /\ [][C8_AfterAbort]_vars

\* the signal fired after a callback was delivered, and then the page gave the
\* matching element a a child, which the session would have reported
C8_Witness ==
  /\ sessions[1].kind = "modified" /\ sessions[1].target.kind = "selector"
  /\ options[1].signal = "live" /\ options[1].subtree
  /\ aborted
  /\ log # <<>>
  /\ "a" \in Range(Descendants(children, Body))
  /\ last.act = "mutate"
  /\ last.batch[1].type = "childList" /\ last.batch[1].target = "a"

(***************************************************************************)
(* What a delivery to a watchModified session was about.                   *)
(***************************************************************************)
\* the record concerns element e: e is its target and matches, or (selector
\* target, subtree on) e is a matching descendant of its target
Attached(o, e, r) ==
  /\ IsElement(r.target)
  /\ \/ r.target = e /\ matchesTarget(e, o.target) = "true"
     \/ /\ o.subtree /\ o.target.kind = "selector"
        /\ e \in Range(QuerySelectorAll(children, r.target))

\* the elements one record concerns, the target first
Concerned(o, r) ==
  IF ~IsElement(r.target) THEN <<>>
  ELSE (IF matchesTarget(r.target, o.target) = "true" THEN <<r.target>> ELSE <<>>)
       \o (IF o.subtree /\ o.target.kind = "selector"
           THEN QuerySelectorAll(children, r.target) ELSE <<>>)

RECURSIVE Dedup(_)
\* the sequence without the later occurrences of its members
Dedup(q) ==
  IF q = <<>> THEN <<>>
  ELSE LET d == Dedup(SubSeq(q, 1, Len(q) - 1))
           x == q[Len(q)] IN
       IF x \in Range(d) THEN d ELSE Append(d, x)

RECURSIVE FirstObserved(_, _)
\* the qualifying elements of a batch, in the order the scan first meets them
FirstObserved(o, batch) ==
  IF batch = <<>> THEN <<>>
  ELSE Dedup(FirstObserved(o, SubSeq(batch, 1, Len(batch) - 1)) \o Concerned(o, batch[Len(batch)]))

NamesOf(recs) == {recs[i].attr : i \in {j \in DOMAIN recs : recs[j].type = "attributes"}}
HasType(recs, type) == \E i \in DOMAIN recs : recs[i].type = type

ModifiedDelivery == last.act = "deliver" /\ sessions[last.sid].kind = "modified"

(***************************************************************************)
(* C12. watchModified: in every ChangeInfo passed to the handler, attrs is *)
(* set exactly when an attribute record is among the ChangeInfo's records  *)
(* and then holds exactly the attribute names of those records; text is    *)
(* true exactly when a characterData record is among them; childList is    *)
(* true exactly when a childList record is among them; a flag whose kind   *)
(* did not occur is left unset.                                            *)
(***************************************************************************)
C12_ChangeInfoFlags ==
  ModifiedDelivery =>
    \A i \in DOMAIN last.calls :
      LET ch == last.calls[i].args.change IN
      /\ ch.attrsSet <=> HasType(ch.records, "attributes")
      /\ ch.attrs = NamesOf(ch.records)
      /\ ch.text <=> HasType(ch.records, "characterData")
      /\ ch.childList <=> HasType(ch.records, "childList")

\* the handler got a ChangeInfo made from two attribute records with different names
C12_Witness ==
  /\ ModifiedDelivery
  /\ \E i \in DOMAIN last.calls :
       LET ch == last.calls[i].args.change IN
       /\ ch.attrsSet /\ ch.attrs = {"data-test", ClassAttr}
       /\ ~ch.childList /\ ~ch.text
       /\ Len(ch.records) = 2

(***************************************************************************)
(* C13. watchModified, once=false, no rate limiting: a delivery invokes    *)
(* the handler exactly once per qualifying element of the batch, however   *)
(* many records concern the element, in the order in which the scan of the *)
(* records first met the elements (up to the invocation that throws, if    *)
(* one does); and every invocation already carries all the batch's records *)
(* that concern its element, so none happens before the whole batch has    *)
(* been aggregated.                                                        *)
(***************************************************************************)
C13_OncePerElement ==
  (ModifiedDelivery /\ Unlimited(last.sid) /\ ~options[last.sid].once) =>
    LET o == Closure(last.sid)
        expected == FirstObserved(o, last.batch)
        got == CalledWith(last.calls) IN
    /\ IF last.halt = "throw"
       THEN got # <<>> /\ got = SubSeq(expected, 1, Len(got))
       ELSE got = expected
    /\ \A i \in DOMAIN last.calls :
         last.calls[i].args.change.records =
           SelectSeq(last.batch, LAMBDA r : Attached(o, got[i], r))

\* a batch of two records: the first concerns a alone, the second a and b; the
\* handler ran for a, with both records, and then for b
C13_Witness ==
  /\ ModifiedDelivery /\ Unlimited(last.sid) /\ ~options[last.sid].once
  /\ Len(last.batch) = 2
  /\ last.batch[1].target = "a"
  /\ CalledWith(last.calls) = <<"a", "b">>
  /\ last.calls[1].args.change.records = last.batch
  /\ last.calls[2].args.change.records = <<last.batch[2]>>

(***************************************************************************)
(* C14. watchModified: every ChangeInfo a delivery hands to the handler    *)
(* has a non-empty records sequence that is a subsequence, in delivery     *)
(* order and without duplicates, of the records of that batch; its attrs   *)
(* and flags come from records of that batch; and its element is concerned *)
(* by a record of that batch. Nothing of an earlier batch appears.         *)
(***************************************************************************)
C14_FreshPerBatch ==
  ModifiedDelivery =>
    \A i \in DOMAIN last.calls :
      LET ch == last.calls[i].args.change
          el == last.calls[i].args.el IN
      /\ ch.records # <<>>
      /\ ch.records = SelectSeq(last.batch, LAMBDA r : r \in Range(ch.records))
      /\ ch.attrs \subseteq NamesOf(last.batch)
      /\ ch.attrsSet => HasType(last.batch, "attributes")
      /\ ch.text => HasType(last.batch, "characterData")
      /\ ch.childList => HasType(last.batch, "childList")
      /\ \E j \in DOMAIN last.batch : Attached(Closure(last.sid), el, last.batch[j])

\* the second batch of a session: its element got attrs in the first batch, and now
\* gets a ChangeInfo with the child list change alone
C14_Witness ==
  /\ ModifiedDelivery
  /\ Len(log) = 2 /\ Len(last.calls) = 1
  /\ log[1].args.el = log[2].args.el
  /\ log[1].args.change.attrsSet
  /\ ~log[2].args.change.attrsSet /\ log[2].args.change.childList
  /\ log[2].args.change.records = last.batch

(***************************************************************************)
(* C15. watchModified with the default configuration: when the text        *)
(* content of an element that matches the target was changed (its text     *)
(* node's data was set, or a text node was put into or taken out of it),   *)
(* the delivery of that change invokes the handler for the element with a  *)
(* ChangeInfo whose text flag is true.                                     *)
(***************************************************************************)
\* record r is a change of the text content of element e
TextChangeOf(r, e) ==
  \/ r.type = "characterData" /\ Parent(children, r.target) = e
  \/ /\ r.type = "childList" /\ r.target = e
     /\ (Range(r.added) \cup Range(r.removed)) \cap TextNodes # {}

C15_TextChangeReported ==
  (/\ ModifiedDelivery /\ Unlimited(last.sid) /\ last.halt = "run"
   /\ options[last.sid].root = Doc /\ options[last.sid].subtree
   /\ ~options[last.sid].once) =>
    \A j \in DOMAIN last.batch, e \in Elements :
      (/\ TextChangeOf(last.batch[j], e)
       /\ matchesTarget(e, sessions[last.sid].target) = "true") =>
        \E i \in DOMAIN last.calls :
          last.calls[i].args.el = e /\ last.calls[i].args.change.text

(***************************************************************************)
(* One watchModified session created with an attribute filter              *)
(* (attributes: [names]); the page also changes attributes outside it.     *)
(***************************************************************************)
FilterOptions == {[DefaultOptions EXCEPT !.attributes = [isArray |-> TRUE, value |-> TRUE,
                                                         names |-> F],
                                         !.signal = "live"] :
                    F \in SUBSET AllAttrNames}

InitFilter == InitSession(RatedDoms, {"modified"}, Targets, FilterOptions)

NextFilter ==
  \/ \E el \in Elements, name \in AllAttrNames : SetAttribute(el, name, "v")
  \/ \E el \in ClassX : SetAttribute(el, ClassAttr, "x")
  \/ \E p \in {Body}, n \in ClassX : AppendNodes(p, <<n>>)
  \/ \E s \in DOMAIN obs, throwAt \in {0, 1} : Deliver(s, throwAt)
  \/ \E s \in DOMAIN obs : Dispose(s)

SpecFilter == InitFilter /\ [][NextFilter]_vars

(***************************************************************************)
(* C16. watchModified with an attribute filter F: a change of an attribute *)
(* outside F is not recorded for the session and no batch ever holds it,   *)
(* so it causes no handler invocation; every ChangeInfo.attrs delivered is *)
(* a subset of F; a change of an attribute in F on an element in the       *)
(* observed tree is recorded while the session is attached, and when it is *)
(* delivered for a matching element the handler is invoked for that        *)
(* element with the name in attrs (unless the handler threw earlier in     *)
(* the same delivery).                                                     *)
(***************************************************************************)
C16_AttributeFilter ==
  \A s \in DOMAIN sessions :
    (sessions[s].kind = "modified" /\ options[s].attributes.isArray /\ Unlimited(s)) =>
      LET F == options[s].attributes.names IN
      /\ \A i \in DOMAIN obs[s].queue :
           obs[s].queue[i].type = "attributes" => obs[s].queue[i].attr \in F
      /\ \A i \in DOMAIN log : log[i].sid = s => log[i].args.change.attrs \subseteq F
      /\ (last.act = "mutate" /\ last.batch[1].type = "attributes") =>
           LET r == last.batch[1] IN
           IF r.attr \in F
           THEN (obs[s].connected /\ options[s].root \in Ancestors(children, r.target))
                  => r \in Range(obs[s].queue)
           ELSE r \notin Range(obs[s].queue)
      /\ (last.act = "deliver" /\ last.sid = s) =>
           \A j \in DOMAIN last.batch :
             LET r == last.batch[j] IN
             r.type = "attributes" =>
               /\ r.attr \in F
               /\ (last.halt = "run" /\ matchesTarget(r.target, sessions[s].target) = "true")
                    => \E i \in DOMAIN last.calls :
                         /\ last.calls[i].args.el = r.target
                         /\ r.attr \in last.calls[i].args.change.attrs

\* the filter is {"data-test"}: a change of data-test on the matching element a was
\* delivered to the handler, and now the page has changed a's title, which is not recorded
C16_Witness ==
  /\ sessions[1].kind = "modified" /\ options[1].attributes.isArray
  /\ options[1].attributes.names = {"data-test"}
  /\ obs[1].connected
  /\ Len(log) = 1 /\ log[1].args.el = "a" /\ log[1].args.change.attrs = {"data-test"}
  /\ last.act = "mutate" /\ last.batch[1].type = "attributes"
  /\ last.batch[1].target = "a" /\ last.batch[1].attr = "title"
  /\ obs[1].queue = <<>>

(***************************************************************************)
(* A composite session: watchSelector(target, {onEnter, onExit, onChange}, *)
(* options). A handler that is present gets a session of its own, created  *)
(* in the order enter, exit, change, with the same target and options.     *)
(* Session ids are 1 (watchAdded), 2 (watchRemoved), 3 (watchModified).    *)
(***************************************************************************)
SelKinds == <<"added", "removed", "modified">>

SelTargets == {Selector, Predicate({"a", "b"}, {})}

SelOptions == {[DefaultOptions EXCEPT !.once = on, !.signal = "live"] : on \in BOOLEAN}

InitSel ==
  /\ children \in RatedDoms
  /\ nops = 0
  /\ attrs = InitialAttributes
  /\ \E H \in SUBSET DOMAIN SelKinds, t \in SelTargets, o \in SelOptions :
       /\ sessions = [s \in H |-> [kind |-> SelKinds[s], target |-> t]]
       /\ options = [s \in H |-> o]
  /\ obs = [s \in DOMAIN sessions |-> [connected |-> TRUE, queue |-> <<>>, transient |-> {}]]
  /\ rl = [s \in DOMAIN sessions |-> NewRl(options[s])]
  /\ timers = {}
  /\ nextTimerId = 1
  /\ now = Epoch
  /\ aborted = FALSE
  /\ ndisp = [s \in DOMAIN sessions |-> 0]
  /\ log = <<>>
  /\ hist = <<>>
  /\ last = OtherStep
  /\ promise = <<>>

\* the Dispose function watchSelector returned: disposers.forEach(dispose => dispose())
DisposeAllFirst ==
  /\ \A s \in DOMAIN obs : ndisp[s] < MaxDispose
  /\ obs' = [s \in DOMAIN obs |->
               IF \A t \in DOMAIN obs : s <= t THEN disconnect(obs[s]) ELSE obs[s]]
  /\ ndisp' = [s \in DOMAIN obs |-> ndisp[s] + 1]
  /\ last' = OtherStep
  /\ UNCHANGED <<promise, children, nops, sessions, attrs, options, rl, timers, nextTimerId, now, aborted,
                 log, hist>>
DisposeAll ==
  /\ \A s \in DOMAIN obs : ndisp[s] < MaxDispose
  /\ obs' = [s \in DOMAIN obs |-> disconnect(obs[s])]
  /\ ndisp' = [s \in DOMAIN obs |-> ndisp[s] + 1]
  /\ last' = OtherStep
  /\ UNCHANGED <<promise, children, nops, sessions, attrs, options, rl, timers, nextTimerId, now, aborted,
                 log, hist>>

\* Mutation observers are notified in one microtask, in the order of their creation,
\* each with the records queued for it; the page runs again when all are served.
Pending(s) == obs[s].connected /\ obs[s].queue # <<>>
Notifying == last.act = "deliver" /\ \E s \in DOMAIN obs : Pending(s)
IsNext(s) == Pending(s) /\ \A t \in DOMAIN obs : t < s => ~Pending(t)

\* the page adds the matching element a to body, changes its data-test attribute,
\* and removes it
NextSelDom ==
  \/ AppendNodes(Body, <<"a">>)
  \/ RemoveNode("a")
  \/ Recorded("a", "attributes", "data-test") /\ SetAttribute("a", "data-test", "v")

\* a handler that throws ends its own observer's callback only: the notification goes on
NextSel ==
  \/ ~Notifying /\ NextSelDom
  \/ \E s \in DOMAIN obs, throwAt \in {0, 1} : IsNext(s) /\ Deliver(s, throwAt)
  \/ ~Notifying /\ DisposeAll
  \/ ~Notifying /\ Abort

SpecSel == InitSel /\ [][NextSel]_vars

(***************************************************************************)
(* C17. A composite session: the Disposer acts on every constituent at     *)
(* once; once it has been called every constituent's observer is detached  *)
(* with nothing queued, no handler of the three is ever invoked after a    *)
(* Disposer call, and no later step - an addition, a removal, a            *)
(* modification, a further Disposer call, an abort - changes an observer   *)
(* or makes a delivery. A Disposer call completes, changing nothing but    *)
(* the observers, whichever constituents had detached themselves before    *)
(* (by once or by the signal).                                             *)
(***************************************************************************)
C17_Disposed ==
  /\ \A s, t \in DOMAIN sessions : ndisp[s] = ndisp[t]
  /\ \A s \in DOMAIN sessions :
       ndisp[s] > 0 => ~obs[s].connected /\ obs[s].queue = <<>> /\ obs[s].transient = {}
  /\ \A i \in DOMAIN log : log[i].ndisp = 0
  /\ \A i \in DOMAIN hist : hist[i].ndisp = 0

C17_Step ==
  /\ (\E s \in DOMAIN sessions : ndisp[s] > 0) =>
       /\ obs' = obs /\ log' = log /\ hist' = hist
       /\ last'.act # "deliver"
  /\ ndisp' # ndisp =>
       /\ \A s \in DOMAIN sessions : ndisp'[s] = ndisp[s] + 1 /\ ~obs'[s].connected
       /\ UNCHANGED <<promise, children, nops, sessions, attrs, options, rl, timers, nextTimerId, now,
                      aborted, log, hist>>

C17_CompositeDisposer == []C17_Disposed /\ [][C17_Step]_vars

\* all three handlers, once=true: onEnter had run (so its session had detached itself)
\* while the onExit session was still attached; the Disposer was called twice, and
\* then the page removed the matching element a
C17_Witness ==
  /\ DOMAIN sessions = {1, 2, 3}
  /\ options[1].once
  /\ \E i \in DOMAIN log : log[i].sid = 1
  /\ \A i \in DOMAIN log : log[i].sid # 2
  /\ \A s \in DOMAIN sessions : ndisp[s] >= 2
  /\ last.act = "mutate" /\ last.batch[1].removed = <<"a">>

(***************************************************************************)
(* Which handler invocation answers which mutation. Mutation records are   *)
(* numbered in the order the page made the mutations.                      *)
(***************************************************************************)
\* e is one of the nodes, and matches; or (selector target, subtree on) a matching
\* descendant of one of them
Qualifies(o, e, nodes) ==
  \E n \in Range(nodes) :
    /\ IsElement(n)
    /\ \/ e = n /\ matchesTarget(e, o.target) = "true"
       \/ /\ o.subtree /\ o.target.kind = "selector"
          /\ e \in Range(QuerySelectorAll(children, n))

KindAt(i) == sessions[log[i].sid].kind

\* invocation i is onEnter(e) for mutation k, which added e
EnterOf(i, e, k) ==
  /\ KindAt(i) = "added" /\ log[i].args.el = e
  /\ \E j \in DOMAIN log[i].batch :
       log[i].batch[j].id = k /\ e \in Range(log[i].batch[j].added)

\* invocation i is onExit(e) for mutation k, which removed e
ExitOf(i, e, k) ==
  /\ KindAt(i) = "removed" /\ log[i].args.el = e
  /\ \E j \in DOMAIN log[i].batch :
       log[i].batch[j].id = k /\ e \in Range(log[i].batch[j].removed)

\* invocation i is onChange(e, change) where change holds mutation k, a change of
\* an attribute of e
ChangeAt(i, e, k) ==
  /\ KindAt(i) = "modified" /\ log[i].args.el = e
  /\ \E j \in DOMAIN log[i].args.change.records :
       LET r == log[i].args.change.records[j] IN
       r.id = k /\ r.type = "attributes" /\ r.target = e

\* the handlers answer the mutations of one element in the order of the mutations
InMutationOrder ==
  \A i, j \in DOMAIN log, e \in ClassX, k, m \in 1..nops :
    k < m =>
      /\ (EnterOf(i, e, k) /\ ChangeAt(j, e, m)) => i < j
      /\ (ChangeAt(i, e, k) /\ ExitOf(j, e, m)) => i < j
      /\ (EnterOf(i, e, k) /\ ExitOf(j, e, m)) => i < j

(***************************************************************************)
(* C18. watchSelector creates one session, with one observer, per handler  *)
(* that is present (0 to 3), all with the same target and options; onEnter *)
(* is invoked only for qualifying added elements, onExit only for          *)
(* qualifying removed elements, onChange only for modifications (a record  *)
(* of the batch is a change of the element itself); so adding a matching   *)
(* element, then changing one of its attributes, then removing it invokes  *)
(* onEnter, then onChange, then onExit.                                    *)
(***************************************************************************)
\* one session per handler present, with the same target and the same options
C18_Structure ==
  /\ DOMAIN obs = DOMAIN sessions /\ Cardinality(DOMAIN sessions) <= 3
  /\ \A s, t \in DOMAIN sessions :
       /\ sessions[s].target = sessions[t].target
       /\ options[s] = options[t]
       /\ s # t => sessions[s].kind # sessions[t].kind

\* each handler is invoked only for its own kind of event on the element
C18_Routing ==
  last.act = "deliver" =>
    LET o == Closure(last.sid)
        kind == sessions[last.sid].kind IN
    \A i \in DOMAIN last.calls :
      /\ last.calls[i].sid = last.sid
      /\ \E q \in DOMAIN last.batch :
           LET rq == last.batch[q]
               e == last.calls[i].args.el IN
           \/ kind = "added" /\ rq.type = "childList" /\ Qualifies(o, e, rq.added)
           \/ kind = "removed" /\ rq.type = "childList" /\ Qualifies(o, e, rq.removed)
           \/ kind = "modified" /\ rq.target = e

\* the handlers answer in the order of the mutations
C18_EnterChangeExit == InMutationOrder

C18_Composite == C18_Structure /\ C18_Routing /\ C18_EnterChangeExit

(***************************************************************************)
(* wait.ts: waitFor, waitForRemoved, waitForChange. Each call returns      *)
(* Promise.race([inner, createTimeoutPromise(timeout)]), where inner is    *)
(* settled by the call's MutationObserver or by the signal's listener.     *)
(*   promise[s].inner   = the observer's promise                           *)
(*   promise[s].timeout = "none" (never created) | "pending" | "rejected"  *)
(*   promise[s].outer   = what the caller holds: "pending", "matched",     *)
(*                        "timedout", "aborted"; "threw" when the call     *)
(*                        itself threw and returned no promise             *)
(***************************************************************************)
DefaultTimeout == 10000

NoValue == [el |-> None, ms |-> 0, records |-> <<>>]
ElValue(el) == [NoValue EXCEPT !.el = el]
Settled(state, value) == [state |-> state, value |-> value]
Unsettled == Settled("pending", NoValue)

\* resolve(value) of the inner promise; the race follows the first to settle
resolve(p, value) ==
  IF p.inner.state # "pending" THEN p
  ELSE [p EXCEPT !.inner = Settled("resolved", value),
                 !.outer = IF @.state = "pending" THEN Settled("matched", value) ELSE @]

\* reject(new Error('Operation was aborted')) of the inner promise
reject(p) ==
  IF p.inner.state # "pending" THEN p
  ELSE [p EXCEPT !.inner = Settled("rejected", NoValue),
                 !.outer = IF @.state = "pending" THEN Settled("aborted", NoValue) ELSE @]

\* the timer of createTimeoutPromise(ms) fires: reject(new Error(`... after ${ms}ms`))
rejectTimeoutLast(p, ms) ==
  [p EXCEPT !.timeout = "rejected",
            !.outer = Settled("timedout", [NoValue EXCEPT !.ms = ms])]
rejectTimeout(p, ms) ==
  [p EXCEPT !.timeout = "rejected",
            !.outer = IF @.state = "pending"
                      THEN Settled("timedout", [NoValue EXCEPT !.ms = ms]) ELSE @]

isElementTarget(target) == target.kind \in {"selector", "element"}

\* n.querySelector(target.toString()): the first match, None, or "throw": the string
\* of an Element ("[object HTMLDivElement]") or of a function is not a valid selector
QuerySelector(ch, n, target) ==
  IF target.kind # "selector" THEN "throw"
  ELSE IF QuerySelectorAll(ch, n) = <<>> THEN None
  ELSE Head(QuerySelectorAll(ch, n))

\* waitFor's "Check if element already exists"
Existing(ch, target, opts) ==
  IF ~isElementTarget(target) THEN None
  ELSE IF opts.subtree THEN QuerySelector(ch, opts.root, target)
  ELSE IF opts.root = Doc THEN QuerySelector(ch, Doc, target)
  ELSE None

\* the caller's predicate of waitForChange, by the batches it accepts
Accepts(pred, records) ==
  \/ pred = "always"
  \/ pred = "attributes" /\ HasType(records, "attributes")

(***************************************************************************)
(* The observer callbacks of the wait functions. w is [p, conn, halt]: the *)
(* session's promises, whether its observer is still attached, and         *)
(* whether the callback goes on ("run"), returned, or threw.               *)
(***************************************************************************)
\* matchesTarget of the wait functions, with the identity test left out
waitMatchesTargetNoIdentity(el, target) ==
  IF target.kind = "selector" THEN Bool(ElMatches(el))
  ELSE IF target.kind = "element" THEN "false"
  ELSE IF el \in target.throws THEN "throw" ELSE Bool(el \in target.yes)

\* matchesTarget of the wait functions: "true", "false", or "throw" when the
\* predicate throws
waitMatchesTarget(el, target) ==
  IF target.kind = "selector" THEN Bool(ElMatches(el))
  ELSE IF target.kind = "element" THEN Bool(el = target.el)
  ELSE IF el \in target.throws THEN "throw" ELSE Bool(el \in target.yes)

\* const { timeout = DefaultTimeout } = options
Undefined == -1
TimeoutOf(opts) == IF opts.timeout = Undefined THEN DefaultTimeout ELSE opts.timeout

\* the message of the Error a session is rejected with
Message(outcome) ==
  IF outcome.state = "timedout" THEN <<"Operation timed out after ", outcome.value.ms, "ms">>
  ELSE IF outcome.state = "aborted" THEN <<"Operation was aborted">>
  ELSE <<>>

WaitClosure(s) == [target |-> sessions[s].target, subtree |-> options[s].subtree,
                   pred |-> sessions[s].pred]

\* observer.disconnect(); resolve(value); return
Match(w, value) == [p |-> resolve(w.p, value), conn |-> FALSE, halt |-> "return"]

\* the loop body of waitFor without the scan of the added node's descendants
waitForNodeNoScan(w, o, node) ==
  IF ~IsElement(node) THEN w
  ELSE LET m == waitMatchesTarget(node, o.target) IN
       IF m = "throw" THEN [w EXCEPT !.halt = "throw"]
       ELSE IF m = "true" THEN Match(w, ElValue(node))
       ELSE w

\* the body of waitFor's loop over mutation.addedNodes
waitForNode(w, o, node) ==
  IF ~IsElement(node) THEN w
  ELSE LET m == waitMatchesTarget(node, o.target) IN
       IF m = "throw" THEN [w EXCEPT !.halt = "throw"]
       ELSE IF m = "true" THEN Match(w, ElValue(node))
       ELSE IF ~o.subtree THEN w
       ELSE LET match == QuerySelector(children, node, o.target) IN
            IF match = "throw" THEN [w EXCEPT !.halt = "throw"]
            ELSE IF match = None THEN w
            ELSE Match(w, ElValue(match))

\* the loop body of waitForRemoved without observer.disconnect()
waitForRemovedNodeAttached(w, o, node) ==
  IF ~IsElement(node) THEN w
  ELSE LET m == waitMatchesTarget(node, o.target) IN
       IF m = "throw" THEN [w EXCEPT !.halt = "throw"]
       ELSE IF m = "true" THEN [Match(w, NoValue) EXCEPT !.conn = w.conn]
       ELSE w

\* the body of waitForRemoved's loop over mutation.removedNodes
waitForRemovedNode(w, o, node) ==
  IF ~IsElement(node) THEN w
  ELSE LET m == waitMatchesTarget(node, o.target) IN
       IF m = "throw" THEN [w EXCEPT !.halt = "throw"]
       ELSE IF m = "true" THEN Match(w, NoValue)
       ELSE w

RECURSIVE WaitNodes(_, _, _, _)
WaitNodes(w, o, kind, nodes) ==
  IF nodes = <<>> \/ w.halt # "run" THEN w
  ELSE WaitNodes(IF kind = "waitFor" THEN waitForNode(w, o, Head(nodes))
                 ELSE waitForRemovedNode(w, o, Head(nodes)),
                 o, kind, Tail(nodes))

RECURSIVE WaitMutations(_, _, _, _)
\* new MutationObserver((mutations) => ...) of waitFor and of waitForRemoved
WaitMutations(w, o, kind, mutations) ==
  IF mutations = <<>> \/ w.halt # "run" THEN w
  ELSE LET m == Head(mutations)
           nodes == IF kind = "waitFor" THEN m.added ELSE m.removed IN
       WaitMutations(IF m.type = "childList" THEN WaitNodes(w, o, kind, nodes) ELSE w,
                     o, kind, Tail(mutations))

\* new MutationObserver((records) => ...) of waitForChange
waitForChangeObserver(w, o, records) ==
  LET onElement == SelectSeq(records, LAMBDA r : IsElement(r.target))
      relevantRecords == SelectSeq(onElement,
                                   LAMBDA r : waitMatchesTarget(r.target, o.target) = "true") IN
  IF \E i \in DOMAIN onElement : waitMatchesTarget(onElement[i].target, o.target) = "throw"
  THEN [w EXCEPT !.halt = "throw"]
  ELSE IF relevantRecords # <<>> /\ o.pred = "throws"
  THEN [w EXCEPT !.halt = "throw"]
  ELSE IF relevantRecords # <<>> /\ Accepts(o.pred, relevantRecords)
       THEN [p |-> resolve(w.p, [NoValue EXCEPT !.records = relevantRecords]),
             conn |-> FALSE, halt |-> "run"]
       ELSE w

WaitObserver(w, kind, o, records) ==
  IF kind = "waitForChange" THEN waitForChangeObserver(w, o, records)
  ELSE WaitMutations(w, o, kind, records)

(***************************************************************************)
(* The steps of a wait session.                                            *)
(***************************************************************************)
\* the observer's queued records are delivered to its callback as one batch
WaitDeliver(s) ==
  /\ obs[s].connected
  /\ obs[s].queue # <<>>
  /\ LET batch == obs[s].queue
         w == WaitObserver([p |-> promise[s], conn |-> TRUE, halt |-> "run"],
                           sessions[s].kind, WaitClosure(s), batch) IN
     /\ obs' = AtCheckpoint([obs EXCEPT ![s] = [connected |-> w.conn, queue |-> <<>>,
                                                transient |-> {}]])
     /\ promise' = [promise EXCEPT ![s] = w.p]
     /\ last' = [act |-> "deliver", sid |-> s, batch |-> batch, halt |-> w.halt,
                 calls |-> <<>>]
  /\ UNCHANGED <<children, nops, sessions, attrs, options, rl, timers, nextTimerId, now, aborted,
                 ndisp, log, hist>>

\* the call reached signal?.addEventListener('abort', ...) with a signal
Listening(s) == options[s].signal # "none" /\ promise[s].timeout # "none"

\* controller.abort() with listeners that reject and leave the observer attached
WaitAbortNoDisconnect ==
  /\ \E s \in DOMAIN obs : HasListener(s)
  /\ aborted' = TRUE
  /\ promise' = IF aborted THEN promise
                ELSE [s \in DOMAIN promise |->
                        IF Listening(s) THEN reject(promise[s]) ELSE promise[s]]
  /\ last' = OtherStep
  /\ UNCHANGED <<children, nops, sessions, attrs, options, obs, rl, timers, nextTimerId, now, ndisp,
                 log, hist>>

\* controller.abort(): the first call runs the listeners,
\* () => { observer.disconnect(); reject(new Error('Operation was aborted')); }
WaitAbort ==
  /\ \E s \in DOMAIN obs : HasListener(s)
  /\ aborted' = TRUE
  /\ obs' = IF aborted THEN obs
            ELSE [s \in DOMAIN obs |-> IF Listening(s) THEN disconnect(obs[s]) ELSE obs[s]]
  /\ promise' = IF aborted THEN promise
                ELSE [s \in DOMAIN promise |->
                        IF Listening(s) THEN reject(promise[s]) ELSE promise[s]]
  /\ last' = OtherStep
  /\ UNCHANGED <<children, nops, sessions, attrs, options, rl, timers, nextTimerId, now, ndisp,
                 log, hist>>

\* a timer queue that runs the timer of createTimeoutPromise before it is due
TimeoutFiresEarly(tm) ==
  /\ tm \in timers
  /\ tm.kind = "timeout"
  /\ timers' = timers \ {tm}
  /\ promise' = [promise EXCEPT ![tm.owner] = rejectTimeout(@, TimeoutOf(options[tm.owner]))]
  /\ last' = OtherStep
  /\ UNCHANGED <<children, nops, sessions, attrs, options, obs, rl, nextTimerId, now, aborted,
                 ndisp, log, hist>>

\* a timer whose callback does not reject
TimeoutFiresSilent(tm) ==
  /\ tm \in timers
  /\ tm.kind = "timeout"
  /\ tm.due <= now
  /\ timers' = timers \ {tm}
  /\ last' = OtherStep
  /\ UNCHANGED <<promise, children, nops, sessions, attrs, options, obs, rl, nextTimerId, now,
                 aborted, ndisp, log, hist>>

\* the timer queue services the due timer of createTimeoutPromise
TimeoutFires(tm) ==
  /\ tm \in timers
  /\ tm.kind = "timeout"
  /\ tm.due <= now
  /\ timers' = timers \ {tm}
  /\ promise' = [promise EXCEPT ![tm.owner] = rejectTimeout(@, TimeoutOf(options[tm.owner]))]
  /\ last' = OtherStep
  /\ UNCHANGED <<children, nops, sessions, attrs, options, obs, rl, nextTimerId, now, aborted,
                 ndisp, log, hist>>

(***************************************************************************)
(* One wait session. The initial state is the state in which the call      *)
(* returns (or throws).                                                    *)
(***************************************************************************)
CallStep(s) == [OtherStep EXCEPT !.act = "call", !.sid = s]

\* what the call does: throws, returns Promise.resolve(existing), or creates the
\* observer and the timeout timer and returns the race
Call(kind, ch, target, opts) ==
  LET existing == IF kind = "waitFor" THEN Existing(ch, target, opts) ELSE None IN
  IF existing = "throw"
  THEN [observe |-> FALSE,
        promise |-> [inner |-> Unsettled, timeout |-> "none",
                     outer |-> Settled("threw", NoValue)]]
  ELSE IF existing # None
  THEN [observe |-> FALSE,
        promise |-> [inner |-> Unsettled, timeout |-> "none",
                     outer |-> Settled("matched", ElValue(existing))]]
  ELSE [observe |-> TRUE,
        promise |-> [inner |-> Unsettled, timeout |-> "pending", outer |-> Unsettled]]

WaitKinds == {"waitFor", "waitForRemoved", "waitForChange"}
WaitPreds == {"always", "attributes"}

WaitOptions == {[root |-> r, subtree |-> st, timeout |-> ms, signal |-> "live"] :
                  r \in {Doc, Body}, st \in BOOLEAN, ms \in {WaitMs, Undefined}}

InitWaitOf(targetSet, predSet, optionSet) ==
  /\ children \in InitDoms
  /\ nops = 0
  /\ attrs = InitialAttributes
  /\ \E k \in WaitKinds, t \in targetSet, pr \in predSet :
       /\ k # "waitForChange" => pr = "always"
       /\ sessions = [s \in {1} |-> [kind |-> k, target |-> t, pred |-> pr]]
  /\ \E o \in optionSet : options = [s \in {1} |-> o]
  /\ LET c == Call(sessions[1].kind, children, sessions[1].target, options[1]) IN
     /\ obs = [s \in {1} |-> [connected |-> c.observe, queue |-> <<>>, transient |-> {}]]
     /\ promise = [s \in {1} |-> c.promise]
     /\ timers = IF c.observe
                 THEN setTimeout({}, 1, 1, "timeout", Epoch + TimeoutOf(options[1]), ElArgs(None))
                 ELSE {}
     /\ nextTimerId = IF c.observe THEN 2 ELSE 1
  /\ rl = [s \in {1} |-> NewRl(DefaultOptions)]
  /\ now = Epoch
  /\ aborted = (options[1].signal = "aborted")
  /\ ndisp = [s \in {1} |-> 0]
  /\ log = <<>>
  /\ hist = <<>>
  /\ last = CallStep(1)

InitWait == InitWaitOf(Targets, WaitPreds, WaitOptions)

NextWaitDom ==
  \/ \E n \in Movable : AppendNodes(Body, <<n>>)
  \/ \E n \in Movable : RemoveNode(n)
  \/ \E el \in ClassX : Recorded(el, "attributes", "data-test") /\ SetAttribute(el, "data-test", "v")
  \/ \E t \in TextNodes : SetData(t)
  \/ setClasses("c", {"x"}, {})

NextWait ==
  \/ NextWaitDom
  \/ \E s \in DOMAIN obs : WaitDeliver(s)
  \/ WaitAbort
  \/ timers # {} /\ Tick
  \/ \E tm \in timers : TimeoutFires(tm)

SpecWait == InitWait /\ [][NextWait]_vars

(***************************************************************************)
(* C19: every wait session starts Pending and reaches at most one of       *)
(* Matched, TimedOut, Aborted; once it is settled, its outcome and the     *)
(* value of that outcome never change, whatever matching mutation, timer   *)
(* firing or abort happens afterwards.                                     *)
(***************************************************************************)
WaitOutcomes == {"matched", "timedout", "aborted"}

C19_States ==
  \A s \in DOMAIN promise :
    /\ promise[s].timeout # "none" =>
         promise[s].outer.state \in {"pending"} \cup WaitOutcomes
    /\ (last.act = "call" /\ last.sid = s /\ obs[s].connected) =>
         promise[s].outer.state = "pending"

C19_Step ==
  \A s \in DOMAIN promise :
    promise[s].outer.state # "pending" => promise'[s].outer = promise[s].outer

C19_SettledOnce == []C19_States /\ [][C19_Step]_vars

\* the timeout settled the session and a matching mutation came afterwards
C19_Witness ==
  \E s \in DOMAIN promise :
    /\ promise[s].outer.state = "timedout"
    /\ promise[s].inner.state = "resolved"

(***************************************************************************)
(* C20: waitFor with a selector target, when an element matching the       *)
(* selector exists within the root at call time (among the root's children *)
(* when subtree is false, among its descendants when subtree is true), is  *)
(* settled Matched with such an element as soon as the call returns, and   *)
(* no observer is created; for every root and either value of subtree.     *)
(***************************************************************************)
Within(ch, opts) ==
  IF opts.subtree THEN QuerySelectorAll(ch, opts.root)
  ELSE SelectSeq(ch[opts.root], ElMatches)

C20_ExistingMatch ==
  \A s \in DOMAIN promise :
    (/\ last.act = "call"
     /\ last.sid = s
     /\ sessions[s].kind = "waitFor"
     /\ sessions[s].target.kind = "selector"
     /\ Within(children, options[s]) # <<>>)
    => /\ promise[s].outer.state = "matched"
       /\ promise[s].outer.value.el \in Range(QuerySelectorAll(children, options[s].root))
       /\ ~obs[s].connected
       /\ timers = {}

(***************************************************************************)
(* C21: waitFor with an Element target: when the element is under the root *)
(* at call time the session is settled Matched with that element as soon   *)
(* as the call returns, no observer is created and nothing is thrown; when *)
(* it is not under the root, the call returns a Pending session and does   *)
(* not throw.                                                              *)
(***************************************************************************)
C21_ElementRefShortcut ==
  \A s \in DOMAIN promise :
    (/\ last.act = "call"
     /\ last.sid = s
     /\ sessions[s].kind = "waitFor"
     /\ sessions[s].target.kind = "element")
    => IF sessions[s].target.el \in Range(Descendants(children, options[s].root))
       THEN /\ promise[s].outer = Settled("matched", ElValue(sessions[s].target.el))
            /\ ~obs[s].connected
       ELSE /\ promise[s].outer.state = "pending"
            /\ obs[s].connected

(***************************************************************************)
(* C22: a waitFor session with a selector target that is Pending stays     *)
(* Pending until a batch adds a qualifying element; the delivery of that   *)
(* batch settles it Matched with the first qualifying element in scan      *)
(* order (records in delivery order, added nodes in order, each added node *)
(* itself before its matching descendants, which count when subtree is     *)
(* enabled) and detaches the observer in the same step.                    *)
(***************************************************************************)
\* the qualifying elements an added node contributes, in scan order
QualifyingOf(node, subtree) ==
  IF ~IsElement(node) THEN <<>>
  ELSE (IF ElMatches(node) THEN <<node>> ELSE <<>>)
       \o (IF subtree THEN QuerySelectorAll(children, node) ELSE <<>>)

RECURSIVE QualifyingOfNodes(_, _)
QualifyingOfNodes(nodes, subtree) ==
  IF nodes = <<>> THEN <<>>
  ELSE QualifyingOf(Head(nodes), subtree) \o QualifyingOfNodes(Tail(nodes), subtree)

RECURSIVE QualifyingIn(_, _)
QualifyingIn(batch, subtree) ==
  IF batch = <<>> THEN <<>>
  ELSE (IF Head(batch).type = "childList"
        THEN QualifyingOfNodes(Head(batch).added, subtree) ELSE <<>>)
       \o QualifyingIn(Tail(batch), subtree)

C22_Step ==
  \A s \in DOMAIN promise :
    (/\ sessions[s].kind = "waitFor"
     /\ sessions[s].target.kind = "selector"
     /\ promise[s].outer.state = "pending")
    => LET q == QualifyingIn(obs[s].queue, options[s].subtree) IN
       IF last'.act = "deliver" /\ last'.sid = s
       THEN IF q = <<>>
            THEN promise'[s].outer.state = "pending" /\ obs'[s].connected
            ELSE /\ promise'[s].outer = Settled("matched", ElValue(Head(q)))
                 /\ ~obs'[s].connected
       ELSE promise'[s].outer.state # "matched"

C22_FirstQualifying == [][C22_Step]_vars

\* a delivered batch added the non-matching c, and the session matched c's
\* first matching descendant
C22_Witness ==
  \E s \in DOMAIN promise :
    /\ sessions[s].kind = "waitFor"
    /\ sessions[s].target.kind = "selector"
    /\ last.act = "deliver"
    /\ last.sid = s
    /\ \E i \in DOMAIN last.batch : last.batch[i].added = <<"c">>
    /\ promise[s].outer = Settled("matched", ElValue("a"))
    /\ ~obs[s].connected

(***************************************************************************)
(* C23: a wait session of any of the three kinds, with timeout T (10000 ms *)
(* when the option is not given), that has had no qualifying mutation and  *)
(* no abort is Pending at every instant before T has elapsed since the     *)
(* call; when its timer fires it settles TimedOut, and the failure's       *)
(* message is 'Operation timed out after Tms'.                             *)
(***************************************************************************)
\* the timeout timer of session s
TimeoutTimers(s) == {tm \in timers : tm.kind = "timeout" /\ tm.owner = s}

C23_States ==
  \A s \in DOMAIN promise :
    LET T == IF options[s].timeout = Undefined THEN DefaultTimeout ELSE options[s].timeout IN
    /\ (promise[s].inner.state = "pending" /\ now < Epoch + T) =>
         promise[s].outer.state \in {"pending", "threw", "matched"}
    /\ (promise[s].timeout # "none" /\ promise[s].inner.state = "pending" /\ now < Epoch + T) =>
         promise[s].outer.state = "pending"
    /\ promise[s].timeout = "pending" =>
         \E tm \in TimeoutTimers(s) : tm.due = Epoch + T
    /\ promise[s].outer.state = "timedout" =>
         /\ now >= Epoch + T
         /\ Message(promise[s].outer) = <<"Operation timed out after ", T, "ms">>

C23_Step ==
  \A s \in DOMAIN promise :
    (promise[s].outer.state = "pending" /\ TimeoutTimers(s) \ timers' # {})
    => promise'[s].outer.state = "timedout"

C23_Timeout == []C23_States /\ [][C23_Step]_vars

\* the timer fired with nothing else having settled the session
C23_Witness ==
  \E s \in DOMAIN promise :
    /\ promise[s].outer.state = "timedout"
    /\ promise[s].inner.state = "pending"
    /\ promise[s].outer.value.ms = options[s].timeout
    /\ obs[s].queue # <<>>

(***************************************************************************)
(* C24: once a wait session has settled TimedOut its observer is detached: *)
(* in every state in which the session is TimedOut no observer of it is    *)
(* attached, and no step delivers a batch to it.                           *)
(***************************************************************************)
C24_Detached ==
  \A s \in DOMAIN promise :
    promise[s].outer.state = "timedout" => ~obs[s].connected

C24_NoLaterBatch ==
  \A s \in DOMAIN promise :
    promise[s].outer.state = "timedout" => ~(last'.act = "deliver" /\ last'.sid = s)

C24_TimedOutDetaches == []C24_Detached /\ [][C24_NoLaterBatch]_vars

(***************************************************************************)
(* C25: once a wait session has settled Matched or Aborted its timeout     *)
(* timer is cancelled: in every state in which the session is Matched or   *)
(* Aborted no timeout timer of it is pending; the already-present shortcut *)
(* of waitFor schedules no timeout timer.                                  *)
(***************************************************************************)
C25_TimerCancelled ==
  \A s \in DOMAIN promise :
    promise[s].outer.state \in {"matched", "aborted"} => TimeoutTimers(s) = {}

(***************************************************************************)
(* C26: a wait session of any of the three kinds created with a signal     *)
(* that is not yet aborted: when the signal aborts while the session is    *)
(* Pending, that step settles it Aborted with a failure other than the     *)
(* timeout failure and detaches its observer; afterwards no batch is       *)
(* delivered to it and no mutation settles it Matched.                     *)
(***************************************************************************)
C26_States ==
  \A s \in DOMAIN promise :
    promise[s].outer.state = "aborted" =>
      /\ ~obs[s].connected
      /\ obs[s].queue = <<>>
      /\ Message(promise[s].outer) = <<"Operation was aborted">>

C26_Step ==
  \A s \in DOMAIN promise :
    /\ (/\ promise[s].outer.state = "pending"
        /\ options[s].signal = "live"
        /\ ~aborted
        /\ aborted')
       => /\ promise'[s].outer.state = "aborted"
          /\ Head(Message(promise'[s].outer)) # "Operation timed out after "
          /\ ~obs'[s].connected
    /\ promise[s].outer.state = "aborted"
       => /\ promise'[s].outer.state = "aborted"
          /\ ~(last'.act = "deliver" /\ last'.sid = s)

C26_Abort == []C26_States /\ [][C26_Step]_vars

\* after the abort, a mutation that would have matched
C26_Witness ==
  \E s \in DOMAIN promise :
    /\ promise[s].outer.state = "aborted"
    /\ sessions[s].kind = "waitFor"
    /\ sessions[s].target.kind = "selector"
    /\ options[s].root = Body
    /\ last.act = "mutate"
    /\ last.batch[1].type = "childList"
    /\ last.batch[1].target = Body
    /\ last.batch[1].added = <<"a">>

(***************************************************************************)
(* C27: waitForRemoved always creates its observer and is Pending when the *)
(* call returns, also when no element matching the target exists then; a   *)
(* Pending session is settled Matched, with no value, by the delivery of a *)
(* batch that removes a node directly matching the target, and its         *)
(* observer is detached in that step.                                      *)
(***************************************************************************)
\* the batch removes an element that itself matches the target
RemovesMatch(batch, target) ==
  \E i \in DOMAIN batch :
    /\ batch[i].type = "childList"
    /\ \E e \in Range(batch[i].removed) \cap Elements : waitMatchesTarget(e, target) = "true"

C27_Call ==
  \A s \in DOMAIN promise :
    (last.act = "call" /\ last.sid = s /\ sessions[s].kind = "waitForRemoved")
    => /\ obs[s].connected
       /\ promise[s].outer.state = "pending"
       /\ TimeoutTimers(s) # {}

C27_Step ==
  \A s \in DOMAIN promise :
    (sessions[s].kind = "waitForRemoved" /\ promise[s].outer.state = "pending")
    => IF last'.act = "deliver" /\ last'.sid = s
       THEN IF RemovesMatch(obs[s].queue, sessions[s].target)
            THEN promise'[s].outer = Settled("matched", NoValue) /\ ~obs'[s].connected
            ELSE promise'[s].outer.state = "pending" /\ obs'[s].connected
       ELSE promise'[s].outer.state # "matched"

C27_Removed == []C27_Call /\ [][C27_Step]_vars

\* the element was added and removed after the call, in one batch
C27_Witness ==
  \E s \in DOMAIN promise :
    /\ sessions[s].kind = "waitForRemoved"
    /\ last.act = "deliver"
    /\ last.sid = s
    /\ Len(last.batch) = 2
    /\ last.batch[1].added = <<"a">>
    /\ last.batch[2].removed = <<"a">>
    /\ promise[s].outer = Settled("matched", NoValue)
    /\ ~obs[s].connected

(***************************************************************************)
(* C28: waitForRemoved with a selector target and subtree enabled: the     *)
(* delivery of a batch that removes a node which does not match the        *)
(* selector itself but contains a matching descendant settles the Pending  *)
(* session Matched.                                                        *)
(***************************************************************************)
\* the batch removes a non-matching element that holds a matching descendant
RemovesHolder(batch) ==
  \E i \in DOMAIN batch :
    /\ batch[i].type = "childList"
    /\ \E e \in Range(batch[i].removed) \cap Elements :
         ~ElMatches(e) /\ QuerySelectorAll(children, e) # <<>>

C28_Step ==
  \A s \in DOMAIN promise :
    (/\ sessions[s].kind = "waitForRemoved"
     /\ sessions[s].target.kind = "selector"
     /\ options[s].subtree
     /\ promise[s].outer.state = "pending"
     /\ last'.act = "deliver"
     /\ last'.sid = s
     /\ RemovesHolder(obs[s].queue))
    => promise'[s].outer.state = "matched"

C28_RemovedDescendant == [][C28_Step]_vars

(***************************************************************************)
(* C29: waitForChange: for each delivered batch the relevant records are   *)
(* the batch's records whose owning element matches the target, in         *)
(* delivery order; a Pending session is settled Matched with exactly that  *)
(* subsequence iff it is non-empty and the predicate accepts it, and       *)
(* otherwise stays Pending with its observer attached.                     *)
(***************************************************************************)
C29_Step ==
  \A s \in DOMAIN promise :
    (/\ sessions[s].kind = "waitForChange"
     /\ promise[s].outer.state = "pending"
     /\ last'.act = "deliver"
     /\ last'.sid = s)
    => LET \* the element a record belongs to: its target, or for the record of
           \* a text change the element that holds the text node
           owner(r) == IF r.target \in TextNodes THEN Parent(children, r.target)
                       ELSE r.target
           relevant == SelectSeq(obs[s].queue,
                         LAMBDA r : /\ IsElement(owner(r))
                                    /\ waitMatchesTarget(owner(r), sessions[s].target) = "true")
       IN
       IF relevant # <<>> /\ Accepts(sessions[s].pred, relevant)
       THEN /\ promise'[s].outer = Settled("matched", [NoValue EXCEPT !.records = relevant])
            /\ ~obs'[s].connected
       ELSE /\ promise'[s].outer.state = "pending"
            /\ obs'[s].connected

C29_RelevantRecords == [][C29_Step]_vars

(***************************************************************************)
(* The two matchesTarget functions applied to the same target: one session *)
(* record holds the target, hist the evaluations made so far.              *)
(***************************************************************************)
MatchTargets ==
  {Selector} \cup {ElementRef(e) : e \in Elements \ Parsed}
  \cup {Predicate(yes, throws) : yes \in {{}, {"a"}, {"a", "b"}, {"c"}},
                                 throws \in {{}, {"a"}, {"c"}}}

InitMatch ==
  /\ children = [n \in Nodes |-> IF n = Doc THEN <<Body>> ELSE <<>>]
  /\ nops = 0
  /\ attrs = InitialAttributes
  /\ \E t \in MatchTargets : sessions = [s \in {1} |-> [kind |-> "bare", target |-> t]]
  /\ options = [s \in {1} |-> DefaultOptions]
  /\ obs = [s \in {1} |-> [connected |-> FALSE, queue |-> <<>>, transient |-> {}]]
  /\ rl = [s \in {1} |-> NewRl(options[s])]
  /\ timers = {}
  /\ nextTimerId = 1
  /\ now = Epoch
  /\ aborted = FALSE
  /\ ndisp = [s \in {1} |-> 0]
  /\ log = <<>>
  /\ hist = <<>>
  /\ last = OtherStep
  /\ promise = <<>>

Evaluated(path, el, result) ==
  /\ Len(hist) < MaxCalls
  /\ hist' = Append(hist, [path |-> path, el |-> el, result |-> result])
  /\ last' = OtherStep
  /\ UNCHANGED <<promise, children, nops, sessions, attrs, options, obs, rl, timers, nextTimerId,
                 now, aborted, ndisp, log>>

\* matchesTarget(el, target) in the observer module
ObserveMatch(el) == Evaluated("observe", el, matchesTarget(el, sessions[1].target))

\* matchesTarget(el, target) in the wait module
WaitMatch(el) == Evaluated("wait", el, waitMatchesTarget(el, sessions[1].target))

NextMatch ==
  \/ \E el \in DOMAIN attrs : ObserveMatch(el)
  \/ \E el \in DOMAIN attrs : WaitMatch(el)

SpecMatch == InitMatch /\ [][NextMatch]_vars

(***************************************************************************)
(* C30: matching on the observe path and on the wait path gives the same   *)
(* result for every element and target: the selector test for a selector,  *)
(* identity for an Element, the predicate's own result (or its fault) for  *)
(* a predicate; an evaluation reads and changes no session state, so       *)
(* evaluating again on the same pair gives the same result.                *)
(***************************************************************************)
C30_Results ==
  LET target == sessions[1].target IN
  /\ \A i, j \in DOMAIN hist : hist[i].el = hist[j].el => hist[i].result = hist[j].result
  /\ \A i \in DOMAIN hist :
       hist[i].result =
         IF target.kind = "selector" THEN Bool(ElMatches(hist[i].el))
         ELSE IF target.kind = "element" THEN Bool(hist[i].el = target.el)
         ELSE IF hist[i].el \in target.throws THEN "throw"
         ELSE Bool(hist[i].el \in target.yes)

C30_Step ==
  UNCHANGED <<promise, children, nops, sessions, attrs, options, obs, rl, timers, nextTimerId,
              now, aborted, ndisp, log>>

C30_SameMatch == []C30_Results /\ [][C30_Step]_vars

\* both paths evaluated the identity test on the referenced element
C30_Witness ==
  /\ sessions[1].target.kind = "element"
  /\ \E i, j \in DOMAIN hist :
       /\ hist[i].path = "observe"
       /\ hist[j].path = "wait"
       /\ hist[i].el = sessions[1].target.el
       /\ hist[j].el = hist[i].el
       /\ hist[j].result = "true"

(***************************************************************************)
(* The second copy of the observer module (part_001). It differs from the  *)
(* first in the loop bodies of watchAdded and watchRemoved, which query    *)
(* the descendants with node.querySelectorAll(target.toString()) whenever  *)
(* subtree is set. The string of an Element ("[object HTMLDivElement]") or *)
(* of a function (its source text) is not a selector, so the query throws  *)
(* a SyntaxError for those targets. watchModified is the same in both.     *)
(***************************************************************************)
\* the body of the loop over mutation.addedNodes / mutation.removedNodes
VisitNodeAlt(ctx, o, node) ==
  IF ~IsElement(node) THEN ctx
  ELSE LET m == matchesTarget(node, o.target) IN
       IF m = "throw" THEN [ctx EXCEPT !.halt = "throw"]
       ELSE LET c1 == IF m = "true" THEN callback(ctx, ElArgs(node)) ELSE ctx
                c2 == IF m = "true" /\ c1.halt # "throw" /\ o.once
                      THEN [c1 EXCEPT !.conn = FALSE, !.halt = "return"]
                      ELSE c1 IN
            IF c2.halt # "run" THEN c2
            ELSE IF ~o.subtree THEN c2
            ELSE IF o.target.kind = "selector"
                 THEN ForEachMatch(c2, o, QuerySelectorAll(children, node))
                 ELSE [c2 EXCEPT !.halt = "throw"]

RECURSIVE VisitNodesAlt(_, _, _)
VisitNodesAlt(ctx, o, nodes) ==
  IF nodes = <<>> \/ ctx.halt # "run" THEN ctx
  ELSE VisitNodesAlt(VisitNodeAlt(ctx, o, Head(nodes)), o, Tail(nodes))

RECURSIVE watchAddedObserverAlt(_, _, _)
\* new MutationObserver((mutations) => ...) of watchAdded
watchAddedObserverAlt(ctx, o, mutations) ==
  IF mutations = <<>> \/ ctx.halt # "run" THEN ctx
  ELSE LET m == Head(mutations) IN
       watchAddedObserverAlt(IF m.type = "childList" THEN VisitNodesAlt(ctx, o, m.added)
                             ELSE ctx,
                             o, Tail(mutations))

RECURSIVE watchRemovedObserverAlt(_, _, _)
\* new MutationObserver((mutations) => ...) of watchRemoved
watchRemovedObserverAlt(ctx, o, mutations) ==
  IF mutations = <<>> \/ ctx.halt # "run" THEN ctx
  ELSE LET m == Head(mutations) IN
       watchRemovedObserverAlt(IF m.type = "childList" THEN VisitNodesAlt(ctx, o, m.removed)
                               ELSE ctx,
                               o, Tail(mutations))

ObserverCallbackAlt(ctx, kind, o, records) ==
  IF kind = "added" THEN watchAddedObserverAlt(ctx, o, records)
  ELSE IF kind = "removed" THEN watchRemovedObserverAlt(ctx, o, records)
  ELSE watchModifiedObserver(ctx, o, records)

\* the observer's queued records are delivered to its callback as one batch
DeliverAlt(s, throwAt) ==
  /\ obs[s].connected
  /\ obs[s].queue # <<>>
  /\ LET batch == obs[s].queue
         c == ObserverCallbackAlt(Ctx(s, throwAt), sessions[s].kind, Closure(s), batch) IN
     /\ obs' = AtCheckpoint([obs EXCEPT ![s] = [connected |-> c.conn, queue |-> <<>>,
                                                transient |-> {}]])
     /\ rl' = [rl EXCEPT ![s] = c.rl]
     /\ timers' = c.timers
     /\ nextTimerId' = c.nextId
     /\ log' = c.log
     /\ hist' = c.hist
     /\ last' = [act |-> "deliver", sid |-> s, batch |-> batch, halt |-> c.halt,
                 calls |-> SubSeq(c.log, Len(log) + 1, Len(c.log))]
  /\ UNCHANGED <<promise, children, nops, sessions, attrs, options, now, aborted, ndisp>>

NextObsAlt ==
  \/ NextDom
  \/ \E s \in DOMAIN obs, throwAt \in {0, 1} : DeliverAlt(s, throwAt)
  \/ \E s \in DOMAIN obs : Dispose(s)
  \/ Abort

SpecObsAlt == InitObs /\ [][NextObsAlt]_vars

(***************************************************************************)
(* C31: watchAdded, watchRemoved and watchModified with an Element or      *)
(* predicate target (any subtree), or a selector target without subtree:   *)
(* the handler is invoked only for elements that are themselves added or   *)
(* removed nodes (or targets of records) of the batch and match directly;  *)
(* descendants are not queried with the selector primitive (so no fault    *)
(* comes from such a query) and are not delivered.                         *)
(***************************************************************************)
\* the nodes a delivery of this kind of session tests directly
DirectNodes(kind, batch) ==
  UNION {IF kind = "modified" THEN {batch[i].target}
         ELSE IF batch[i].type # "childList" THEN {}
         ELSE IF kind = "added" THEN Range(batch[i].added)
         ELSE Range(batch[i].removed) : i \in DOMAIN batch}

C31_NoFanOut ==
  \A s \in DOMAIN sessions :
    (/\ last.act = "deliver"
     /\ last.sid = s
     /\ sessions[s].kind \in {"added", "removed", "modified"}
     /\ (sessions[s].target.kind # "selector" \/ ~options[s].subtree))
    => LET direct == DirectNodes(sessions[s].kind, last.batch) \cap Elements IN
       /\ \A i \in DOMAIN last.calls :
            /\ last.calls[i].args.el \in direct
            /\ matchesTarget(last.calls[i].args.el, sessions[s].target) = "true"
       /\ last.halt = "throw" =>
            \/ \E i \in DOMAIN last.calls : last.calls[i].threw
            \/ \E e \in direct : matchesTarget(e, sessions[s].target) = "throw"

(***************************************************************************)
(* C32: waitFor with a predicate target and subtree enabled: processing an *)
(* added element that fails the predicate raises no fault and makes no     *)
(* descendant query, so the delivery of a batch whose first added element  *)
(* fails the predicate and a later one satisfies it settles the Pending    *)
(* session Matched with the later element.                                 *)
(***************************************************************************)
C32_Step ==
  \A s \in DOMAIN promise :
    (/\ sessions[s].kind = "waitFor"
     /\ sessions[s].target.kind = "predicate"
     /\ options[s].subtree
     /\ promise[s].outer.state = "pending"
     /\ last'.act = "deliver"
     /\ last'.sid = s)
    => LET added == AddedElements(obs[s].queue)
           passing == SelectSeq(added,
                        LAMBDA e : waitMatchesTarget(e, sessions[s].target) = "true") IN
       /\ (\A i \in DOMAIN added : waitMatchesTarget(added[i], sessions[s].target) # "throw")
            => last'.halt # "throw"
       /\ (/\ Len(added) >= 2
           /\ waitMatchesTarget(added[1], sessions[s].target) = "false"
           /\ passing # <<>>)
            => promise'[s].outer = Settled("matched", ElValue(Head(passing)))

C32_PredicateNoQuery == [][C32_Step]_vars

(***************************************************************************)
(* One observation session without once, whose handler may throw and whose *)
(* predicate target throws on the element b.                               *)
(***************************************************************************)
FaultTargets == {Selector, Predicate({"a"}, {"b"})}

InitFault == InitSession(InitDoms, {"added", "removed", "modified"}, FaultTargets,
                         {o \in ObsOptions : ~o.once})

NextFault == NextSession({0, 1})

SpecFault == InitFault /\ [][NextFault]_vars

(***************************************************************************)
(* C33: watchAdded, watchRemoved and watchModified with once = false: a    *)
(* fault of the handler or of the predicate target during a delivery       *)
(* propagates out of the delivery uncaught and the observer stays          *)
(* attached; the qualifying mutations of every later batch are still       *)
(* delivered to the handler, until the session is disposed or aborted.     *)
(***************************************************************************)
C33_FaultKeepsSession ==
  \A s \in DOMAIN sessions :
    (last.act = "deliver" /\ last.sid = s /\ ~options[s].once)
    => LET target == sessions[s].target
           direct == DirectNodes(sessions[s].kind, last.batch) \cap Elements IN
       /\ obs[s].connected
       /\ (\E i \in DOMAIN last.calls : last.calls[i].threw) =>
            /\ last.halt = "throw"
            /\ last.calls[Len(last.calls)].threw
       /\ (\E e \in direct : matchesTarget(e, target) = "throw") => last.halt = "throw"
       /\ last.halt # "throw" =>
            \A e \in direct :
              matchesTarget(e, target) = "true" =>
                \E i \in DOMAIN last.calls : last.calls[i].args.el = e

\* the handler threw in one delivery and was invoked again in a later one
C33_Witness ==
  /\ ~options[1].once
  /\ last.act = "deliver"
  /\ obs[1].connected
  /\ \E i, j \in DOMAIN log :
       /\ i < j
       /\ log[i].threw
       /\ log[i].batch # log[j].batch
       /\ log[j] = last.calls[1]

(***************************************************************************)
(* A composite session with a debounced or throttled callback: every       *)
(* constituent gets the same options object and wraps its handler itself.  *)
(***************************************************************************)
SelRatedOptions == {[DefaultOptions EXCEPT !.debounce = d, !.throttle = RateMs - d,
                                           !.signal = "live"] : d \in {0, RateMs}}

InitSelRate ==
  /\ children \in RatedDoms
  /\ nops = 0
  /\ attrs = InitialAttributes
  /\ \E H \in SUBSET DOMAIN SelKinds, o \in SelRatedOptions :
       /\ Cardinality(H) >= 2
       /\ sessions = [s \in H |-> [kind |-> SelKinds[s], target |-> Selector]]
       /\ options = [s \in H |-> o]
  /\ obs = [s \in DOMAIN sessions |-> [connected |-> TRUE, queue |-> <<>>, transient |-> {}]]
  /\ rl = [s \in DOMAIN sessions |-> NewRl(options[s])]
  /\ timers = {}
  /\ nextTimerId = 1
  /\ now = Epoch
  /\ aborted = FALSE
  /\ ndisp = [s \in DOMAIN sessions |-> 0]
  /\ log = <<>>
  /\ hist = <<>>
  /\ last = OtherStep
  /\ promise = <<>>

NextSelRate ==
  \/ ~Notifying /\ NextSelDom
  \/ \E s \in DOMAIN obs : IsNext(s) /\ Deliver(s, 0)
  \/ ~Notifying /\ Timed /\ Tick
  \/ \E tm \in timers : ~Notifying /\ FireTimer(tm, FALSE)

SpecSelRate == InitSelRate /\ [][NextSelRate]_vars

(***************************************************************************)
(* C34: the debounce / throttle state (pending timer, last-execution time) *)
(* belongs to one session: for any two sessions, also constituents of one  *)
(* composite created from the same options object, a call of one           *)
(* session's rate-limited callback, or the firing of its timer, never      *)
(* cancels, replaces or delays a pending or future execution of the other  *)
(* session's handler.                                                      *)
(***************************************************************************)
C34_Own ==
  \A s \in DOMAIN rl :
    /\ \A tm \in TimersOf(s) : tm.id = rl[s].timeoutId
    /\ \A t \in DOMAIN rl \ {s} : rl[s].timeoutId # 0 => rl[s].timeoutId # rl[t].timeoutId

C34_Step ==
  \A t \in DOMAIN rl :
    (rl'[t] # rl[t] \/ TimersOf(t)' # TimersOf(t) \/ LogOf(t)' # LogOf(t))
    => \/ Len(HistOf(t)') > Len(HistOf(t))
       \/ \E tm \in TimersOf(t) : tm.due <= now /\ tm \notin timers' /\ hist' = hist

C34_PrivateRateState == []C34_Own /\ [][C34_Step]_vars

\* two constituents have been called; one's timer is pending while the other's
\* handler has run
C34_Witness ==
  \E s, t \in DOMAIN rl :
    /\ s # t
    /\ TimersOf(s) # {}
    /\ HistOf(t) # <<>>
    /\ LogOf(t) # <<>>
    /\ \E i \in DOMAIN hist : hist[i].sid = s /\ i > 1 /\ hist[i-1].sid = t

(***************************************************************************)
(* Wait sessions with a configured timeout, targets and predicates that    *)
(* may throw, a clock that advances while a timer is pending, and a timer  *)
(* queue that is eventually serviced.                                      *)
(***************************************************************************)
InitWaitLive ==
  InitWaitOf(FaultTargets, {"always", "throws"}, {o \in WaitOptions : o.timeout = WaitMs})

Serviced ==
  /\ WF_vars(timers # {} /\ Tick)
  /\ WF_vars(\E tm \in timers : TimeoutFires(tm))

SpecWaitLive == InitWaitLive /\ [][NextWait]_vars /\ Serviced

(***************************************************************************)
(* C35: every wait session returned Pending eventually settles (Matched,   *)
(* TimedOut or Aborted), whatever mutations and aborts happen, provided    *)
(* the timer queue is eventually serviced; a fault of the target predicate *)
(* or of the waitForChange predicate during a delivery does not prevent    *)
(* it.                                                                     *)
(***************************************************************************)
C35_EventuallySettles ==
  <>(\A s \in DOMAIN promise : promise[s].outer.state \in WaitOutcomes)

\* a delivery to a Pending session has just ended with a fault of a predicate
C35_Witness ==
  \E s \in DOMAIN promise :
    /\ promise[s].outer.state = "pending"
    /\ last.act = "deliver"
    /\ last.sid = s
    /\ last.halt = "throw"
    /\ \/ sessions[s].pred = "throws"
       \/ \E e \in Elements : waitMatchesTarget(e, sessions[s].target) = "throw"

(***************************************************************************)
(* C36: Throttle(ms): in every interleaving of calls and timer service,    *)
(* also when the trailing timer is serviced after its due time and a new   *)
(* call arrives first, any two executions of the handler are at least ms   *)
(* apart, and the arguments of a deferred call are executed at most once.  *)
(***************************************************************************)
C36_ThrottleSpacing ==
  \A s \in DOMAIN rl : rl[s].kind = "throttle" =>
    LET l == LogOf(s)
        immediate == Len(SelectSeq(l, LAMBDA e : e.via = "sync"))
        trailing == Len(SelectSeq(l, LAMBDA e : e.via = "timer"))
        deferred == Len(HistOf(s)) - immediate IN
    /\ \A i, j \in DOMAIN l : i < j => l[j].at - l[i].at >= rl[s].ms
    /\ trailing + Cardinality(TimersOf(s)) <= deferred

(***************************************************************************)
(* One session, of a watch function or of a wait function, created with a  *)
(* signal that is already aborted.                                         *)
(***************************************************************************)
IsWait(s) == sessions[s].kind \in WaitKinds

InitPreAborted ==
  \/ InitSession(InitDoms, {"added", "removed", "modified"}, {Selector},
                 {[o EXCEPT !.signal = "aborted"] : o \in {p \in ObsOptions : ~p.once}})
  \/ InitWaitOf({Selector}, {"always"},
                {[o EXCEPT !.signal = "aborted"] : o \in {p \in WaitOptions : p.timeout = WaitMs}})

NextPreAborted ==
  \/ NextWaitDom
  \/ \E s \in DOMAIN obs : ~IsWait(s) /\ Deliver(s, 0)
  \/ \E s \in DOMAIN obs : IsWait(s) /\ WaitDeliver(s)
  \/ (\A s \in DOMAIN obs : ~IsWait(s)) /\ Abort
  \/ (\A s \in DOMAIN obs : IsWait(s)) /\ WaitAbort
  \/ timers # {} /\ Tick
  \/ \E tm \in timers : TimeoutFires(tm)

SpecPreAborted == InitPreAborted /\ [][NextPreAborted]_vars

(***************************************************************************)
(* C37: a session created with a signal that is already aborted is not     *)
(* disposed by it: watchAdded / watchRemoved / watchModified stay attached *)
(* and keep invoking the handler, and waitFor / waitForRemoved /           *)
(* waitForChange never settle Aborted (only Matched or TimedOut), since    *)
(* the signal is only listened to for a future abort event.                *)
(***************************************************************************)
C37_States ==
  \A s \in DOMAIN sessions :
    options[s].signal = "aborted" =>
      /\ aborted
      /\ IsWait(s) => promise[s].outer.state \in {"pending", "matched", "timedout"}
      /\ ~IsWait(s) =>
           /\ obs[s].connected
           /\ (last.act = "deliver" /\ last.sid = s) =>
                \A e \in DirectNodes(sessions[s].kind, last.batch) \cap Elements :
                  matchesTarget(e, sessions[s].target) = "true" =>
                    \E i \in DOMAIN last.calls : last.calls[i].args.el = e

C37_Step ==
  (aborted /\ last'.act = "other" /\ now' = now /\ timers' = timers)
  => UNCHANGED <<obs, promise>>

C37_PreAborted == []C37_States /\ [][C37_Step]_vars

\* the handler of a session created with an aborted signal has been invoked
C37_Witness ==
  \E s \in DOMAIN sessions :
    /\ options[s].signal = "aborted"
    /\ aborted
    /\ ~IsWait(s)
    /\ obs[s].connected
    /\ last.act = "deliver"
    /\ last.sid = s
    /\ last.calls # <<>>

(***************************************************************************)
(* C38: the rate-limit policy is resolved once, at creation: a non-zero    *)
(* debounce selects Debounce, whatever throttle is; otherwise a non-zero   *)
(* throttle selects Throttle; 0 or absent selects None, and then every     *)
(* call of the wrapped callback invokes the handler synchronously with the *)
(* same arguments.                                                         *)
(***************************************************************************)
C38_States ==
  \A s \in DOMAIN rl :
    LET o == options[s]
        h == HistOf(s)
        l == LogOf(s) IN
    /\ o.debounce # 0 =>
         /\ rl[s].kind = "debounce"
         /\ rl[s].ms = o.debounce
         /\ \A t \in TimersOf(s) : t.kind = "debounce"
         /\ \A i \in DOMAIN l :
              /\ l[i].via = "timer"
              /\ \E j \in DOMAIN h : h[j].args = l[i].args /\ l[i].at >= h[j].at + o.debounce
    /\ (o.debounce = 0 /\ o.throttle # 0) =>
         /\ rl[s].kind = "throttle"
         /\ rl[s].ms = o.throttle
         /\ \A t \in TimersOf(s) : t.kind = "throttle"
         /\ (h # <<>> /\ h[1].at >= o.throttle) =>
              (l # <<>> /\ l[1].via = "sync" /\ l[1].at = h[1].at /\ l[1].args = h[1].args)
    /\ (o.debounce = 0 /\ o.throttle = 0) =>
         /\ rl[s].kind = "none"
         /\ TimersOf(s) = {}
         /\ Len(l) = Len(h)
         /\ \A i \in DOMAIN l :
              l[i].via = "sync" /\ l[i].at = h[i].at /\ l[i].args = h[i].args

C38_Step ==
  \A s \in DOMAIN rl : rl'[s].kind = rl[s].kind /\ rl'[s].ms = rl[s].ms

C38_PolicyResolvedOnce == []C38_States /\ [][C38_Step]_vars

\* both options were given and the debounced handler has run
C38_Witness ==
  \E s \in DOMAIN rl :
    /\ options[s].debounce # 0
    /\ options[s].throttle # 0
    /\ Len(HistOf(s)) >= 2
    /\ LogOf(s) # <<>>

(***************************************************************************)
(* One watchModified session for each value of the attributes option:      *)
(* true (also the value an absent option defaults to), false, or a list.   *)
(***************************************************************************)
AttributesValues ==
  {[isArray |-> FALSE, value |-> TRUE, names |-> {}],
   [isArray |-> FALSE, value |-> FALSE, names |-> {}]}
  \cup {[isArray |-> TRUE, value |-> TRUE, names |-> F] : F \in {{"data-test"}, {}}}

AttrOptions == {[DefaultOptions EXCEPT !.attributes = a, !.subtree = st, !.childList = cl] :
                  a \in AttributesValues, st \in BOOLEAN, cl \in BOOLEAN}

InitAttr == InitSession(RatedDoms, {"modified"}, {Selector, Predicate({"a", "b"}, {})},
                        AttrOptions)

NextAttr ==
  \/ \E el \in Elements, name \in AttrNames : SetAttribute(el, name, "v")
  \/ NextElement
  \/ \E p \in {Body}, n \in ClassX : AppendNodes(p, <<n>>)
  \/ \E n \in ClassX : RemoveNode(n)
  \/ Checkpoint
  \/ \E s \in DOMAIN obs : Deliver(s, 0)
  \/ \E s \in DOMAIN obs : Dispose(s)

SpecAttr == InitAttr /\ [][NextAttr]_vars

\* the same session created by the second copy of the observer module
NextAttrAlt ==
  \/ \E el \in Elements, name \in AttrNames : SetAttribute(el, name, "v")
  \/ NextElement
  \/ \E p \in {Body}, n \in ClassX : AppendNodes(p, <<n>>)
  \/ \E n \in ClassX : RemoveNode(n)
  \/ Checkpoint
  \/ \E s \in DOMAIN obs : DeliverAlt(s, 0)
  \/ \E s \in DOMAIN obs : Dispose(s)

SpecAttrAlt == InitAttr /\ [][NextAttrAlt]_vars

(***************************************************************************)
(* C39: watchModified always subscribes to attribute mutations: for every  *)
(* value of the attributes option the observer is started with attribute   *)
(* observation on, the option only giving the attribute filter (the list   *)
(* when it is a list, none otherwise); with attributes = false an          *)
(* attribute change on a matching element in the observed tree is still    *)
(* recorded, and its delivery invokes the handler with attrs set.          *)
(***************************************************************************)
C39_AlwaysAttributes ==
  \A s \in DOMAIN sessions :
    sessions[s].kind = "modified" =>
      LET o == ObserveOptions("modified", options[s])
          F == IF options[s].attributes.isArray THEN options[s].attributes.names
               ELSE AllAttrNames IN
      /\ o.attributes
      /\ o.attributeFilter = F
      /\ (last.act = "mutate" /\ last.batch[1].type = "attributes") =>
           LET r == last.batch[1] IN
           (/\ obs[s].connected
            /\ r.attr \in F
            /\ \/ r.target = options[s].root
               \/ options[s].subtree /\ options[s].root \in Ancestors(children, r.target))
           => r \in Range(obs[s].queue)
      /\ (last.act = "deliver" /\ last.sid = s) =>
           \A j \in DOMAIN last.batch :
             LET r == last.batch[j] IN
             (/\ r.type = "attributes"
              /\ matchesTarget(r.target, sessions[s].target) = "true")
             => \E i \in DOMAIN last.calls :
                  /\ last.calls[i].args.el = r.target
                  /\ last.calls[i].args.change.attrsSet
                  /\ r.attr \in last.calls[i].args.change.attrs

\* created with attributes: false, the handler was invoked with attrs set
C39_Witness ==
  \E s \in DOMAIN sessions :
    /\ sessions[s].kind = "modified"
    /\ ~options[s].attributes.isArray
    /\ ~options[s].attributes.value
    /\ last.act = "deliver"
    /\ last.sid = s
    /\ \E i \in DOMAIN last.calls : last.calls[i].args.change.attrsSet

(***************************************************************************)
(* C40: in a composite session created with once = true the limit applies *)
(* to each constituent separately: a delivery to one constituent (and its  *)
(* self-disposal) leaves the others attached with their records, so        *)
(* every handler can still run after another has run; and each present     *)
(* handler is invoked at most once.                                        *)
(***************************************************************************)
C40_Step ==
  \A s \in DOMAIN sessions :
    (options[s].once /\ last'.act = "deliver" /\ last'.sid = s) =>
      \A t \in DOMAIN sessions \ {s} :
        obs'[t].connected = obs[t].connected /\ obs'[t].queue = obs[t].queue

C40_States ==
  \A s \in DOMAIN sessions : options[s].once => Len(LogOf(s)) <= 1

C40_OncePerConstituent == []C40_States /\ [][C40_Step]_vars

====
